---- MODULE Spec2Model ----
(***************************************************************************)
(* A model of the audible-api scraper: the two top-level operations,       *)
(* searchAudible and getAudibleBook, their network fetches, the two        *)
(* Promise.all fan-outs (detail hydration, author enrichment) and the      *)
(* extraction of a Book from a fetched page.                               *)
(*                                                                         *)
(* JavaScript runs a function to its next await without interruption, so   *)
(* one action is the code between two awaits.  A fetched body is an input  *)
(* of the action that completes the fetch.  An object is a function whose  *)
(* domain is the set of the properties it has: an absent property is a     *)
(* name outside the domain.                                                *)
(***************************************************************************)
EXTENDS Integers, Sequences, FiniteSets, TLC

VARIABLES
    bpc,      \* getAudibleBook: "idle", "fetching", "enriching", "returned", "failed"
    barg,     \* its arguments: asin and opts (site, getAuthors)
    bpage,    \* the body of the detail page, once fetched
    bbook,    \* the local `book` while the author fan-out is awaited
    bslots,   \* one promise per author: parseAuthorInfo(author)
    bout,     \* what the call delivered to its caller
    spc,      \* searchAudible: "idle", "fetching", "hydrating", "returned", "failed"
    sarg,     \* its arguments: getFull, site
    sitems,   \* audibleItems, as extracted from the search page
    sslots,   \* one promise (or plain value) per item of the getFull fan-out
    sout,     \* what the call delivered to its caller
    spage,    \* the body of the search page, once fetched
    errlog,   \* the lines written with console.error
    netlog,   \* every network request issued, in order
    fin,      \* a helper function called on its own: its name and argument
    fout      \* and what that call returned

vars == <<bpc, barg, bpage, bbook, bslots, bout, spc, sarg, sitems, sslots, sout, spage,
          errlog, netlog, fin, fout>>
bvars == <<bpc, barg, bpage, bbook, bslots, bout>>
svars == <<spc, sarg, sitems, sslots, sout, spage>>
fvars == <<fin, fout>>

\* Bounds of the model.
MaxNodes == 2      \* anchors and ld+json scripts on one detail page
MaxItems == 2      \* result items on one search page
MaxWords == 4      \* pieces of a title, and tokens of a series label
MaxFilters == 2    \* entries of the durations and of the languages list
MaxParams == 3     \* query parameters of a url handed to a url cleaner

NONE == "none"

Has(obj, key) == key \in DOMAIN obj

SeqsOfLen(S, k) == [1..k -> S]
SeqsUpTo(S, n) == UNION {SeqsOfLen(S, k) : k \in 0..n}

Min(S) == CHOOSE x \in S : \A y \in S : x <= y

----------------------------------------------------------------------------
(* Results of code that may throw. *)

Ok(v) == [ok |-> TRUE, val |-> v]
Throw(e) == [ok |-> FALSE, err |-> e]

\* An Error object: its class and, for node-fetch's FetchError, the request url
\* its message quotes.
FetchError(url) == [name |-> "FetchError", url |-> url]
TypeError(what) == [name |-> "TypeError", what |-> what]
DirtyJsonError == [name |-> "dJSON.SyntaxError"]

----------------------------------------------------------------------------
(* Reference table: site locales. *)

siteCountries ==
    [us |-> "https://www.audible.com",
     ca |-> "https://www.audible.ca",
     gb |-> "https://www.audible.co.uk",
     au |-> "https://www.audible.com.au",
     fr |-> "https://www.audible.fr",
     de |-> "https://www.audible.de",
     it |-> "https://www.audible.it"]

\* The property names every object literal inherits from Object.prototype:
\* table[key] is a function (truthy) for these, besides the table's own keys.
ObjectPrototypeKeys ==
    {"constructor", "toString", "valueOf", "hasOwnProperty", "isPrototypeOf",
     "propertyIsEnumerable", "toLocaleString"}

\* what a template literal prints for undefined
UNDEFINED == "undefined"

\* const { url: baseUrl } = siteCountries[site] || siteCountries.us : an inherited
\* member is truthy and has no url property
BaseUrlOf(site) ==
    IF site \in DOMAIN siteCountries THEN siteCountries[site]
    ELSE IF site \in ObjectPrototypeKeys THEN UNDEFINED
    ELSE siteCountries.us

\* node-fetch rejects a url that is not absolute before any request is made
Absolute(url) == url.origin # UNDEFINED

----------------------------------------------------------------------------
(* URLs.  An href attribute is absent, a relative reference (path segments *)
(* and query parameters) or a string the URL parser rejects.  An absolute  *)
(* url is an origin, the path segments and the query parameters.           *)

NoHref == [kind |-> "none"]
BadHref == [kind |-> "bad"]
RelHref(path, query) == [kind |-> "rel", path |-> path, query |-> query]
Param(k, v) == [k |-> k, v |-> v]

\* new URL(href, baseUrl).href : throws TypeError [ERR_INVALID_URL] on a bad href
NewURL(href, baseUrl) ==
    IF href.kind = "bad" THEN Throw(TypeError("Invalid URL"))
    ELSE Ok([origin |-> baseUrl, path |-> href.path, query |-> href.query])

\* url.replace(/\?.*$/, "").trim()
cleanUrl(url) == [url EXCEPT !.query = <<>>]

\* url.replace(/[?&]ref=.*$/, "").trim() : cuts at the first parameter named ref
cleanNarratorUrl(url) ==
    LET refs == {i \in 1..Len(url.query) : url.query[i].k = "ref"}
    IN IF refs = {} THEN url
       ELSE [url EXCEPT !.query = SubSeq(url.query, 1, Min(refs) - 1)]

----------------------------------------------------------------------------
(* Text normalizers used by the detail extractor. *)

SECONDS_IN_MINUTE == 60
SECONDS_IN_HOUR == SECONDS_IN_MINUTE * 60

\* A title is the sequence of its tokens.  ", Book" is the text ", Book " that
\* opens a series-part suffix; a word token matches [\w\s-]+ .
WordTokens == {"Foo", "1", "One", "Unabridged", "undefined"}

\* newTitle.replace(/, book [\w\s-]+$/i, "") : the leftmost ", book " that only
\* word characters follow up to the end, and everything after it
StripBookSuffix(t) ==
    LET starts == {i \in 1..Len(t) - 1 :
                     /\ t[i] = ", Book"
                     /\ \A j \in i + 1..Len(t) : t[j] \in WordTokens}
    IN IF starts = {} THEN t ELSE SubSeq(t, 1, Min(starts) - 1)

\* newTitle.replace(/\(?unabridged\)?$/i) : the call passes no replacement, so
\* String.prototype.replace substitutes the text "undefined" for the match
StripUnabridged(t) ==
    IF t # <<>> /\ t[Len(t)] \in {"Unabridged", "(Unabridged)"}
    THEN SubSeq(t, 1, Len(t) - 1) \o <<"undefined">>
    ELSE t

cleanTitle(title) == StripUnabridged(StripBookSuffix(title))

\* cleanDescription: the description without its html tags
cleanDescription(d) == d.text

\* getCopyrightYear: the first run of four digits, "" when there is none
getCopyrightYear(c) == c.year

\* str.toLowerCase(), for the texts the model draws
ToLowerCase(str) ==
    CASE str = "EN" -> "en" [] str = "FR" -> "fr" [] str = "FRE" -> "fre"
      [] str = "English" -> "english" [] str = "ENGLISH" -> "english"
      [] str = "French" -> "french" [] str = "Francais" -> "francais"
      [] str = "Ido" -> "ido" [] str = "Klingon" -> "klingon"
      [] OTHER -> str

\* The rows of the ISO 639 table the model carries: a row whose 3-letter codes
\* are one, a row whose 3-letter codes and whose two names differ, and a row
\* whose name is as long as a 3-letter code.
languages ==
    <<[name |-> "English", nativeName |-> "English", iso639_1 |-> "en",
       iso639_2_T |-> "eng", iso639_2_B |-> "eng", iso639_3 |-> "eng"],
      [name |-> "French", nativeName |-> "Francais", iso639_1 |-> "fr",
       iso639_2_T |-> "fra", iso639_2_B |-> "fre", iso639_3 |-> "fra"],
      [name |-> "Ido", nativeName |-> "Ido", iso639_1 |-> "io",
       iso639_2_T |-> "ido", iso639_2_B |-> "ido", iso639_3 |-> "ido"]>>

BookLanguage(m) ==
    [name |-> m.name, iso639_1 |-> m.iso639_1, iso639_2_T |-> m.iso639_2_T,
     iso639_2_B |-> m.iso639_2_B, iso639_3 |-> m.iso639_3]

\* languages.find by name or native name, both sides in lower case: the rows hit
NameHits(name) ==
    {i \in 1..Len(languages) :
        \/ ToLowerCase(languages[i].name) = ToLowerCase(name)
        \/ ToLowerCase(languages[i].nativeName) = ToLowerCase(name)}

\* getLanguageByName: null is the empty sequence
getLanguageByName(name) ==
    IF name = "" \/ NameHits(name) = {} THEN <<>>
    ELSE <<BookLanguage(languages[Min(NameHits(name))])>>

----------------------------------------------------------------------------
(* The DOM of a page, as far as the extractors read it.                    *)
(*   anchor      [text, href]              an <a> element                  *)
(*   script      [strict, lenient, vals]   an ld+json <script>: whether    *)
(*               JSON.parse and dJSON.parse accept its text, and the       *)
(*               values it adds to ldJsonList after .flat()                *)
(*   a value is JSON null or an object; "type" is its "@type" member       *)

Anchor(text, href) == [text |-> text, href |-> href]

JsonNull == [json |-> "null"]
IsObject(v) == v.json = "object"

\* the url cleaner a call site passes to the creator extraction
CleanWith(clean, url) ==
    IF clean = "cleanNarratorUrl" THEN cleanNarratorUrl(url) ELSE cleanUrl(url)

\* Variant: the id is read off the profile link of every creator.
CreatorWithId(a, baseUrl, clean) ==
    IF a.href.kind = "none" THEN [name |-> a.text]
    ELSE [name |-> a.text, url |-> CleanWith(clean, NewURL(a.href, baseUrl).val),
          id |-> a.href.path[Len(a.href.path)]]

\* { name: el.text().trim() } and, when the href is not empty, its resolved url
CreatorOf(a, baseUrl, clean) ==
    IF a.href.kind = "none" THEN [name |-> a.text]
    ELSE [name |-> a.text, url |-> CleanWith(clean, NewURL(a.href, baseUrl).val)]

\* Variant: an anchor without href is skipped.
ExtractLinkedCreators(anchors, baseUrl, clean) ==
    LET Build[k \in 0..Len(anchors)] ==
            IF k = 0 THEN <<>>
            ELSE IF anchors[k].href.kind = "none" THEN Build[k - 1]
            ELSE Append(Build[k - 1], CreatorOf(anchors[k], baseUrl, clean))
    IN IF \E i \in 1..Len(anchors) : anchors[i].href.kind = "bad"
       THEN Throw(TypeError("Invalid URL"))
       ELSE Ok(Build[Len(anchors)])

\* page(selector, main).each(...): one Creator per anchor, in document order;
\* the first href the URL parser rejects throws out of the loop
ExtractCreators(anchors, baseUrl, clean) ==
    IF \E i \in 1..Len(anchors) :
          anchors[i].href.kind # "none" /\ ~NewURL(anchors[i].href, baseUrl).ok
    THEN Throw(TypeError("Invalid URL"))
    ELSE Ok([i \in 1..Len(anchors) |-> CreatorOf(anchors[i], baseUrl, clean)])

\* A token of the comma-split series label: its text, whether it includes
\* "Book", and Number(text.replace("Book ", "")) (nan when that is NaN).
Token(text, book, nan, num) == [text |-> text, book |-> book, nan |-> nan, num |-> num]

RECURSIVE ApplyParts(_, _, _)
\* seriesArr.forEach((seriesStr, i) => ...), from token i on
ApplyParts(series, seriesArr, i) ==
    IF i > Len(seriesArr) THEN series
    ELSE LET tok == seriesArr[i]
             seriesPart == tok.num
             matches == IF i = 1 THEN {}
                        ELSE {j \in 1..Len(series) : series[j].name = seriesArr[i - 1].text}
             next == IF tok.book /\ ~tok.nan /\ seriesPart # 0 /\ matches # {}
                     THEN [series EXCEPT ![Min(matches)] =
                              ("part" :> seriesPart) @@ series[Min(matches)]]
                     ELSE series
         IN ApplyParts(next, seriesArr, i + 1)

\* The try block "Get series and series part": the fields it adds to the book.
\* An exception inside it is swallowed and leaves the book without series.
SeriesFields(dom, baseUrl) ==
    LET base == ExtractCreators(dom.anchors, baseUrl, "cleanUrl")
    IN IF ~base.ok THEN <<>>
       ELSE "series" :> ApplyParts(base.val, dom.label, 1)

\* The text of page(".seriesLabel") in getAudibleBook, which is not scoped to main:
\* the label of the main region followed by the label `outside` it (<<>>: there
\* is none).  Only the first "Series: " is removed, so the last token of the main
\* label runs into the outside label's "Series: " and first token.
DetailLabel(label, outside) ==
    IF outside = <<>> THEN label
    ELSE IF label[Len(label)].text = "" THEN SubSeq(label, 1, Len(label) - 1) \o outside
    ELSE SubSeq(label, 1, Len(label) - 1)
         \o <<Token(label[Len(label)].text \o "Series: " \o outside[1].text,
                    label[Len(label)].book \/ outside[1].book, TRUE, 0)>>
         \o Tail(outside)

\* the try block "Get series and series part" of getAudibleBook
DetailSeriesFields(page, baseUrl) ==
    SeriesFields([anchors |-> page.series.anchors,
                  label |-> DetailLabel(page.series.label, page.outside)], baseUrl)

\* The try block "Get Copyright Info string and year"
CopyrightFields(c) ==
    IF c.text # "" /\ c.symbol
    THEN [copyright |-> c.text, copyrightYear |-> getCopyrightYear(c)]
    ELSE <<>>

\* Variant: a block JSON.parse rejects is not handed to dJSON.parse.
DecodeScriptsStrict(scripts) ==
    IF \E i \in 1..Len(scripts) : ~scripts[i].strict
    THEN Throw([name |-> "SyntaxError"])
    ELSE LET Flat[k \in 0..Len(scripts)] ==
                 IF k = 0 THEN <<>> ELSE Flat[k - 1] \o scripts[k].vals
         IN Ok(Flat[Len(scripts)])

\* page('script[type="application/ld+json"]').each(...) of getAudibleBook, then
\* .flat(): JSON.parse first, dJSON.parse when it throws; dJSON's error escapes
DecodeScripts(scripts) ==
    IF \E i \in 1..Len(scripts) : ~scripts[i].strict /\ ~scripts[i].lenient
    THEN Throw(DirtyJsonError)
    ELSE LET Flat[k \in 0..Len(scripts)] ==
                 IF k = 0 THEN <<>> ELSE Flat[k - 1] \o scripts[k].vals
         IN Ok(Flat[Len(scripts)])

\* the same loop in parseAuthorInfo, which calls dJSON.parse only
DecodeScriptsLenient(scripts) ==
    IF \E i \in 1..Len(scripts) : ~scripts[i].lenient
    THEN Throw(DirtyJsonError)
    ELSE LET Flat[k \in 0..Len(scripts)] ==
                 IF k = 0 THEN <<>> ELSE Flat[k - 1] \o scripts[k].vals
         IN Ok(Flat[Len(scripts)])

\* ldJsonList.find((jsonItem) => jsonItem["@type"] === type): the callback reads
\* a property of every element up to the first match, and throws on null.
\* The result is Ok(<<block>>), Ok(<<>>) for undefined, or the TypeError.
FindType(ldJsonList, type) ==
    LET hits == {i \in 1..Len(ldJsonList) :
                    IsObject(ldJsonList[i]) /\ ldJsonList[i].type = type}
        nulls == {i \in 1..Len(ldJsonList) : ~IsObject(ldJsonList[i])}
    IN IF hits # {} /\ (nulls = {} \/ Min(hits) < Min(nulls))
       THEN Ok(<<ldJsonList[Min(hits)]>>)
       ELSE IF nulls # {} THEN Throw(TypeError("Cannot read properties of null"))
       ELSE Ok(<<>>)

\* obj[src] assigned to book[key]; an undefined value leaves the field absent
Field(key, obj, src) == IF Has(obj, src) THEN key :> obj[src] ELSE <<>>

\* Variant: the first breadcrumb is not dropped.
GenresOfAll(itemListElement, baseUrl) ==
    LET kept == {i \in 1..Len(itemListElement) : itemListElement[i].kind = "thing"}
        Build[k \in 0..Len(itemListElement)] ==
            IF k = 0 THEN <<>>
            ELSE IF k \in kept
                 THEN Append(Build[k - 1],
                             [name |-> itemListElement[k].item.name,
                              url |-> <<baseUrl, itemListElement[k].item.id>>])
                 ELSE Build[k - 1]
    IN Build[Len(itemListElement)]

\* "Get Genres": the breadcrumbs after the first, each { name, url }
GenresOf(itemListElement, baseUrl) ==
    LET rest == IF itemListElement = <<>> THEN <<>> ELSE Tail(itemListElement)
        kept == {i \in 1..Len(rest) : rest[i].kind = "thing"}
        Build[k \in 0..Len(rest)] ==
            IF k = 0 THEN <<>>
            ELSE IF k \in kept
                 THEN Append(Build[k - 1],
                             [name |-> rest[k].item.name,
                              url |-> <<baseUrl, rest[k].item.id>>])
                 ELSE Build[k - 1]
    IN Build[Len(rest)]

\* "@type": "BreadcrumbList" : the fields the block adds to the book
BreadcrumbFields(ldJsonList, baseUrl) ==
    LET found == FindType(ldJsonList, "BreadcrumbList")
    IN IF ~found.ok THEN found
       ELSE IF found.val = <<>> THEN Ok(<<>>)
       ELSE LET breadcrumbJson == found.val[1]
            IN IF ~Has(breadcrumbJson, "itemListElement")
               THEN Throw(TypeError("Cannot read properties of undefined (reading 'slice')"))
               ELSE IF \E i \in 2..Len(breadcrumbJson.itemListElement) :
                          breadcrumbJson.itemListElement[i].kind = "noitem"
               THEN Throw(TypeError("Cannot read properties of undefined (reading 'name')"))
               ELSE Ok("genres" :> GenresOf(breadcrumbJson.itemListElement, baseUrl))

\* Variant: the sku is stored as the asin.
ProductFieldsSwapped(ldJsonList) ==
    LET found == FindType(ldJsonList, "Product")
    IN IF ~found.ok THEN found
       ELSE IF found.val = <<>> THEN Ok(<<>>)
       ELSE Ok(Field("asin", found.val[1], "sku") @@ Field("sku", found.val[1], "productID"))

\* "@type": "Product"
ProductFields(ldJsonList) ==
    LET found == FindType(ldJsonList, "Product")
    IN IF ~found.ok THEN found
       ELSE IF found.val = <<>> THEN Ok(<<>>)
       ELSE Ok(Field("asin", found.val[1], "productID") @@ Field("sku", found.val[1], "sku"))

\* "@type": "Audiobook"
AudiobookFields(ldJsonList) ==
    LET found == FindType(ldJsonList, "Audiobook")
    IN IF ~found.ok THEN found
       ELSE IF found.val = <<>> THEN Ok(<<>>)
       ELSE LET bookJson == found.val[1]
                language == IF Has(bookJson, "inLanguage")
                            THEN getLanguageByName(bookJson.inLanguage) ELSE <<>>
            IN Ok(Field("title", bookJson, "name")
                  @@ (IF Has(bookJson, "name")
                      THEN "cleanTitle" :> cleanTitle(bookJson.name) ELSE <<>>)
                  @@ Field("publisher", bookJson, "publisher")
                  @@ (IF language # <<>> THEN "language" :> language[1] ELSE <<>>)
                  @@ (IF Has(bookJson, "description")
                      THEN "description" :> cleanDescription(bookJson.description)
                      ELSE "description" :> "null")
                  @@ (IF Has(bookJson, "datePublished")
                      THEN "datePublished" :> bookJson.datePublished
                      ELSE "datePublished" :> "Invalid Date")
                  @@ (IF Has(bookJson, "aggregateRating")
                      THEN "rating" :> [value |-> bookJson.aggregateRating.ratingValue,
                                        count |-> bookJson.aggregateRating.ratingCount]
                      ELSE <<>>)
                  @@ (IF Has(bookJson, "offers")
                      THEN "price" :> [low |-> bookJson.offers.lowPrice,
                                       high |-> bookJson.offers.highPrice,
                                       currency |-> bookJson.offers.priceCurrency]
                      ELSE <<>>)
                  @@ ("isAbridged" :> (Has(bookJson, "abridged") /\ bookJson.abridged = "true"))
                  @@ (IF Has(bookJson, "duration")
                      THEN "duration" :> (bookJson.duration.h * SECONDS_IN_HOUR
                                          + bookJson.duration.m * SECONDS_IN_MINUTE)
                      ELSE <<>>)
                  @@ Field("coverUrl", bookJson, "image"))

\* The names of the Book fields each block kind supplies.
KindFields ==
    [BreadcrumbList |-> {"genres"},
     Product |-> {"asin", "sku"},
     Audiobook |-> {"title", "cleanTitle", "publisher", "language", "description",
                    "datePublished", "rating", "price", "isAbridged", "duration",
                    "coverUrl"}]

\* const book = { url: page('link[rel="canonical"]').attr("href"), authors: [], narrators: [] }
\* and the "Get Authors" loop
BaseBook(page, baseUrl) ==
    LET authors == ExtractCreators(page.authors, baseUrl, "cleanUrl")
    IN IF ~authors.ok THEN authors
       ELSE Ok((IF page.canonical # NONE THEN "url" :> page.canonical ELSE <<>>)
               @@ [authors |-> authors.val, narrators |-> <<>>])

\* getAudibleBook from "Get narrators" to "return book": the book, or what is thrown
FinishBook(book, page, baseUrl) ==
    LET narrators == ExtractCreators(page.narrators, baseUrl, "cleanNarratorUrl")
        decoded == DecodeScripts(page.scripts)
        genres == BreadcrumbFields(decoded.val, baseUrl)
        product == ProductFields(decoded.val)
        audiobook == AudiobookFields(decoded.val)
    IN IF ~narrators.ok THEN narrators
       ELSE IF ~decoded.ok THEN decoded
       ELSE IF ~genres.ok THEN genres
       ELSE IF ~product.ok THEN product
       ELSE IF ~audiobook.ok THEN audiobook
       ELSE Ok(audiobook.val @@ product.val @@ genres.val
               @@ CopyrightFields(page.copyright)
               @@ DetailSeriesFields(page, baseUrl)
               @@ [narrators |-> narrators.val]
               @@ book)

\* } catch (err) { console.error(`ERROR PARSING AUDIBLE BOOK FROM ASIN: ${asin}`); throw err; }
\* the line written, and the error thrown to the caller
BookCatchLogs(asin, err) == <<[line |-> "ERROR PARSING AUDIBLE BOOK FROM ASIN", asin |-> asin]>>

\* Variant: the catch block throws a new error that names the asin.
BookCatchWraps(asin, err) == [name |-> "Error", asin |-> asin, cause |-> err]

BookCatchThrows(asin, err) == err

\* `${baseUrl}/pd/${asin}?ipRedirectOverride=true`
BookUrl(asin, site) ==
    [origin |-> BaseUrlOf(site), path |-> <<"pd", asin>>,
     query |-> <<Param("ipRedirectOverride", "true")>>]

----------------------------------------------------------------------------
(* parseAuthorInfo *)

\* the body of parseAuthorInfo's try block after the fetch: whether it ran to its
\* return, and the value of the local newAuthor when it ended (the input author
\* while newAuthor is not yet made)
EnrichFrom(author, page) ==
    LET decoded == DecodeScriptsLenient(page.scripts)
        withThumb == IF page.thumb # NONE
                     THEN ("thumbnailImageUrl" :> page.thumb) @@ author
                     ELSE [k \in DOMAIN author \ {"thumbnailImageUrl"} |-> author[k]]
        authorJson == FindType(decoded.val, "MusicGroup")
        personJson == FindType(decoded.val, "Person")
        nameBio == IF authorJson.val = <<>> THEN withThumb
                   ELSE Field("name", authorJson.val[1], "name")
                        @@ Field("bio", authorJson.val[1], "description") @@ withThumb
        withGroup == IF authorJson.val = <<>> THEN withThumb
                     ELSE LET url == authorJson.val[1].url
                          IN ("id" :> url.path[Len(url.path)]) @@ ("url" :> url) @@ nameBio
    IN IF ~decoded.ok THEN [ok |-> FALSE, newAuthor |-> author]
       ELSE IF ~authorJson.ok THEN [ok |-> FALSE, newAuthor |-> withThumb]
       ELSE IF authorJson.val # <<>> /\ ~Has(authorJson.val[1], "url")
       THEN [ok |-> FALSE, newAuthor |-> nameBio]
       ELSE IF ~personJson.ok THEN [ok |-> FALSE, newAuthor |-> withGroup]
       ELSE IF personJson.val = <<>> THEN [ok |-> TRUE, newAuthor |-> withGroup]
       ELSE [ok |-> TRUE,
             newAuthor |-> Field("imageUrl", personJson.val[1], "image")
                           @@ [k \in DOMAIN withGroup \ {"imageUrl"} |-> withGroup[k]]]

\* Variant: the catch block returns the half-updated copy.
AuthorCatchNew(author, newAuthor) == newAuthor

\* } catch (err) { return author; }
AuthorCatch(author, newAuthor) == author

\* what parseAuthorInfo(author) resolves to, given how its fetch ended:
\* body is <<>> when the fetch (or res.text()) rejected, <<page>> otherwise
parseAuthorInfo(author, body) ==
    IF body = <<>> THEN AuthorCatch(author, author)
    ELSE LET r == EnrichFrom(author, body[1])
         IN IF r.ok THEN r.newAuthor ELSE AuthorCatch(author, r.newAuthor)

----------------------------------------------------------------------------
(* The inputs the model draws from. *)

Asins == {"B01", "B02"}

Script(vals) == [strict |-> TRUE, lenient |-> TRUE, vals |-> vals]
LenientScript(vals) == [strict |-> FALSE, lenient |-> TRUE, vals |-> vals]
BadScript == [strict |-> FALSE, lenient |-> FALSE, vals |-> <<>>]
\* a text JSON.parse accepts and dJSON.parse would reject
StrictOnlyScript(vals) == [strict |-> TRUE, lenient |-> FALSE, vals |-> vals]

Thing(name, id) == [kind |-> "thing", item |-> [name |-> name, id |-> id]]

ProductBlock(id) == [json |-> "object", type |-> "Product", productID |-> id, sku |-> "SK_1"]
BreadcrumbBlock(items) == [json |-> "object", type |-> "BreadcrumbList", itemListElement |-> items]
BreadcrumbNoList == [json |-> "object", type |-> "BreadcrumbList"]
AudiobookBlock ==
    [json |-> "object", type |-> "Audiobook",
     name |-> <<"Foo", ", Book", "1">>, publisher |-> "Pottermore",
     inLanguage |-> "English", description |-> [html |-> "<p>d</p>", text |-> "d"],
     datePublished |-> "2015-11-20",
     aggregateRating |-> [ratingValue |-> 5, ratingCount |-> 100],
     abridged |-> "false", duration |-> [h |-> 8, m |-> 18], image |-> "cover.jpg"]

DetailScripts ==
    {BadScript,
     LenientScript(<<AudiobookBlock>>),
     Script(<<AudiobookBlock>>),
     Script(<<JsonNull>>),
     Script(<<ProductBlock("B01")>>),
     Script(<<BreadcrumbNoList>>),
     Script(<<BreadcrumbBlock(<<Thing("Audible", "/"), Thing("Fiction", "/cat/Fiction"),
                               Thing("Fantasy", "/cat/Fantasy")>>)>>)}

AuthorAnchors ==
    {Anchor("Ann", RelHref(<<"author", "Ann", "B0ANN">>, <<Param("ref", "a_pd")>>)),
     Anchor("Bob", RelHref(<<"author", "Bob", "B0BOB">>, <<>>)),
     Anchor("Cy", NoHref),
     Anchor("Dee", BadHref)}

NarratorAnchors ==
    {Anchor("Ned", RelHref(<<"search">>, <<Param("searchNarrator", "Ned"), Param("ref", "a_pd")>>)),
     Anchor("Nat", BadHref)}

NoCopyright == [text |-> "", symbol |-> FALSE, year |-> ""]
NoSeries == [anchors |-> <<>>, label |-> <<Token("", FALSE, FALSE, 0)>>]

\* canonical link, series label and copyright box of a page: none of them, or all
DomExtras ==
    {[canonical |-> NONE, series |-> NoSeries, copyright |-> NoCopyright],
     [canonical |-> "https://www.audible.com/pd/Foo-Audiobook/B01",
      series |-> [anchors |-> <<Anchor("HP", RelHref(<<"series", "HP">>, <<Param("ref", "s")>>))>>,
                  label |-> <<Token("HP", FALSE, TRUE, 0), Token("Book 1", TRUE, FALSE, 1)>>],
      copyright |-> [text |-> "(c)2015 Pottermore", symbol |-> TRUE, year |-> "2015"]]}

\* the detail pages with a anchors of authors, n of narrators and k scripts
PagesOfShape(a, n, k) ==
    {[canonical |-> x.canonical, series |-> x.series, outside |-> <<>>,
      copyright |-> x.copyright, authors |-> au, narrators |-> na, scripts |-> sc] :
        x \in DomExtras, au \in SeqsOfLen(AuthorAnchors, a),
        na \in SeqsOfLen(NarratorAnchors, n), sc \in SeqsOfLen(DetailScripts, k)}

PageNodes(p) == Len(p.authors) + Len(p.narrators) + Len(p.scripts)

DetailPages ==
    UNION {PagesOfShape(sh[1], sh[2], sh[3]) :
             sh \in {t \in (0..MaxNodes) \X (0..MaxNodes) \X (0..MaxNodes) :
                        t[1] + t[2] + t[3] <= MaxNodes}}

MusicGroupBlock ==
    [json |-> "object", type |-> "MusicGroup", name |-> "Ann Author", description |-> "a bio",
     url |-> [origin |-> "https://www.audible.com", path |-> <<"author", "Ann", "B0ANN">>,
              query |-> <<>>]]
MusicGroupNoUrl ==
    [json |-> "object", type |-> "MusicGroup", name |-> "Ann Author", description |-> "a bio"]
PersonBlock == [json |-> "object", type |-> "Person", image |-> "ann.jpg"]

ProfilePages ==
    {[thumb |-> "ann_thumb.jpg", scripts |-> <<Script(<<MusicGroupBlock, PersonBlock>>)>>],
     [thumb |-> "ann_thumb.jpg", scripts |-> <<Script(<<MusicGroupNoUrl>>)>>],
     [thumb |-> "ann_thumb.jpg", scripts |-> <<BadScript>>],
     [thumb |-> NONE, scripts |-> <<Script(<<PersonBlock>>)>>]}

----------------------------------------------------------------------------
(* getAudibleBook(asin, opts) as a top-level call *)

\* the opts objects the model draws: site absent, a configured tag or an unknown
\* one; getAuthors absent or true
OptsSet ==
    {<<>>, [getAuthors |-> TRUE], [site |-> "fr"], [site |-> "zz", getAuthors |-> TRUE],
     [site |-> "constructor"]}

\* const site = opts.site || "us"
SiteOf(opts) == IF Has(opts, "site") THEN opts.site ELSE "us"
\* const getAuthors = opts.getAuthors || false
GetAuthorsOf(opts) == Has(opts, "getAuthors") /\ opts.getAuthors

Request(op, idx, url) == [op |-> op, idx |-> idx, url |-> url]

\* Variant: a fetch that is sent again.
FetchTwice(op, idx, url) == <<Request(op, idx, url), Request(op, idx, url)>>

\* the requests one call of fetch(url) puts on the network
FetchOnce(op, idx, url) == <<Request(op, idx, url)>>

\* book.authors.map((author) => parseAuthorInfo(author)): one promise per author.
\* parseAuthorInfo returns at once for an author without url and fetches otherwise.
\* A promise records how its fetch ended (net, body) and when it settled (at: 0 at
\* once, else its rank among the fetches that ended).
AuthorSlot(author) ==
    IF Has(author, "url")
    THEN [st |-> "pending", net |-> "sent", body |-> <<>>, val |-> author, at |-> 0]
    ELSE [st |-> "done", net |-> "none", body |-> <<>>, val |-> author, at |-> 0]

AuthorSlots(authors) == [i \in 1..Len(authors) |-> AuthorSlot(authors[i])]

\* the profile fetches the fan-out starts, in the order of the list
ProfileRequests(authors) ==
    LET Req[k \in 0..Len(authors)] ==
            IF k = 0 THEN <<>>
            ELSE IF Has(authors[k], "url")
                 THEN Req[k - 1] \o FetchOnce("profile", k, authors[k].url)
                 ELSE Req[k - 1]
    IN Req[Len(authors)]

\* Variant: the values in the order in which the promises settled.
JoinByCompletion(slots) ==
    LET Rank(i) == 1 + Cardinality({j \in 1..Len(slots) :
                         \/ slots[j].at < slots[i].at
                         \/ slots[j].at = slots[i].at /\ j < i})
    IN [r \in 1..Len(slots) |-> slots[CHOOSE i \in 1..Len(slots) : Rank(i) = r].val]

\* the array Promise.all resolves to: the value of promise i at index i
JoinAll(slots) == [i \in 1..Len(slots) |-> slots[i].val]

AllDone(slots) == \A i \in 1..Len(slots) : slots[i].st = "done"
DoneCount(slots) == Cardinality({i \in 1..Len(slots) : slots[i].at > 0})

\* the end of the call: return book, or the catch block
BookSettle(r) ==
    IF r.ok
    THEN /\ bpc' = "returned"
         /\ bout' = [status |-> "returned", book |-> r.val]
         /\ UNCHANGED errlog
    ELSE /\ bpc' = "failed"
         /\ bout' = [status |-> "failed", err |-> BookCatchThrows(barg.asin, r.err)]
         /\ errlog' = errlog \o BookCatchLogs(barg.asin, r.err)

BookCall(asin, opts) ==
    /\ bpc = "idle"
    /\ bpc' = "fetching"
    /\ barg' = [asin |-> asin, opts |-> opts]
    /\ netlog' = netlog \o FetchOnce("detail", 0, BookUrl(asin, SiteOf(opts)))
    /\ UNCHANGED <<bpage, bbook, bslots, bout, errlog, svars, fvars>>

\* await fetch(bookUrl) or await res.text() rejects
BookFetchFail ==
    /\ bpc = "fetching"
    /\ BookSettle(Throw(FetchError(BookUrl(barg.asin, SiteOf(barg.opts)))))
    /\ UNCHANGED <<barg, bpage, bbook, bslots, netlog, svars, fvars>>

\* the body arrives: the code up to the await of the author fan-out, or, without
\* getAuthors, up to the end
BookFetchOk(page) ==
    /\ bpc = "fetching"
    /\ Absolute(BookUrl(barg.asin, SiteOf(barg.opts)))
    /\ bpage' = <<page>>
    /\ LET baseUrl == BaseUrlOf(SiteOf(barg.opts))
           book == BaseBook(page, baseUrl)
       IN IF ~book.ok
          THEN BookSettle(book) /\ UNCHANGED <<bbook, bslots, netlog>>
          ELSE IF GetAuthorsOf(barg.opts)
          THEN /\ bpc' = "enriching"
               /\ bbook' = book.val
               /\ bslots' = AuthorSlots(book.val.authors)
               /\ netlog' = netlog \o ProfileRequests(book.val.authors)
               /\ UNCHANGED <<bout, errlog>>
          ELSE /\ BookSettle(FinishBook(book.val, page, baseUrl))
               /\ UNCHANGED <<bbook, bslots, netlog>>
    /\ UNCHANGED <<barg, svars, fvars>>

\* the profile fetch of author i ends (body = <<>>: it rejected) and
\* parseAuthorInfo(author i) resolves
ProfileDone(i, body) ==
    /\ bpc = "enriching"
    /\ i \in 1..Len(bslots)
    /\ bslots[i].st = "pending"
    /\ bslots' = [bslots EXCEPT ![i] =
                    [st |-> "done",
                     net |-> IF body = <<>> THEN "failed" ELSE "ok",
                     body |-> body,
                     val |-> parseAuthorInfo(bbook.authors[i], body),
                     at |-> DoneCount(bslots) + 1]]
    /\ UNCHANGED <<bpc, barg, bpage, bbook, bout, errlog, netlog, svars, fvars>>

\* Promise.all resolves: book.authors is replaced and the call runs to its end
AuthorsJoined ==
    /\ bpc = "enriching"
    /\ AllDone(bslots)
    /\ BookSettle(FinishBook([bbook EXCEPT !.authors = JoinAll(bslots)],
                             bpage[1], BaseUrlOf(SiteOf(barg.opts))))
    /\ UNCHANGED <<barg, bpage, bbook, bslots, netlog, svars, fvars>>

----------------------------------------------------------------------------
(* searchAudible(params) *)

\* A JavaScript number that may be NaN: Number(...) of a text.
Num(n) == [nan |-> FALSE, n |-> n]
NaN == [nan |-> TRUE, n |-> 0]

\* A runtime text is the sequence of its pieces: a number followed by a word
\* ("8 hrs", "1 hr", "18 mins"), or other words (n = 0, unit "words").
Piece(n, unit) == [n |-> n, unit |-> unit]

\* runtimeStr.match(re) for /(\d+) hrs/ and /(\d+) mins/ : the first piece with
\* that unit, <<>> when there is none
FirstPiece(runtimeStr, unit) ==
    LET at == {i \in 1..Len(runtimeStr) : runtimeStr[i].unit = unit}
    IN IF at = {} THEN <<>> ELSE <<runtimeStr[Min(at)].n>>

\* Variant: the minutes are not added.
getDurationHoursOnly(runtimeStr) ==
    LET hoursMatch == FirstPiece(runtimeStr, "hrs")
    IN IF hoursMatch # <<>> THEN hoursMatch[1] * SECONDS_IN_HOUR ELSE 0

getDurationFromStr(runtimeStr) ==
    LET hoursMatch == FirstPiece(runtimeStr, "hrs")
        minutesMatch == FirstPiece(runtimeStr, "mins")
    IN (IF hoursMatch # <<>> THEN hoursMatch[1] * SECONDS_IN_HOUR ELSE 0)
       + (IF minutesMatch # <<>> THEN minutesMatch[1] * SECONDS_IN_MINUTE ELSE 0)

\* Variant: the 3-letter stage compares the terminologic code only.
parseLanguageTerminologic(lang) ==
    LET by1 == IF lang.len = 2
               THEN {i \in 1..Len(languages) : languages[i].iso639_1 = ToLowerCase(lang.s)}
               ELSE {}
        by2 == IF by1 = {} /\ lang.len = 3
               THEN {i \in 1..Len(languages) : languages[i].iso639_2_T = ToLowerCase(lang.s)}
               ELSE {}
        hits == IF by1 # {} THEN by1 ELSE IF by2 # {} THEN by2 ELSE NameHits(lang.s)
    IN IF lang.len = 0 \/ hits = {} THEN <<>> ELSE <<BookLanguage(languages[Min(hits)])>>

\* parseLanguage: by 2-letter code, then by 3-letter code, then by name; a token
\* is its text and its length; null is the empty sequence
parseLanguage(lang) ==
    LET by1 == IF lang.len = 2
               THEN {i \in 1..Len(languages) : languages[i].iso639_1 = ToLowerCase(lang.s)}
               ELSE {}
        by2 == IF by1 = {} /\ lang.len = 3
               THEN {i \in 1..Len(languages) :
                        \/ languages[i].iso639_2_T = ToLowerCase(lang.s)
                        \/ languages[i].iso639_2_B = ToLowerCase(lang.s)}
               ELSE {}
        hits == IF by1 # {} THEN by1 ELSE IF by2 # {} THEN by2 ELSE NameHits(lang.s)
    IN IF lang.len = 0 \/ hits = {} THEN <<>> ELSE <<BookLanguage(languages[Min(hits)])>>

\* resultsStr.match(/([0-9,]+) results$/) and Number(match[1]); the heading is
\* <<>> when nothing matches, else the digits matched and whether commas part them
TotalResults(heading) ==
    IF heading = <<>> THEN Num(0)
    ELSE IF heading[1].commas THEN NaN ELSE Num(heading[1].n)

\* newBook.url?.match(/\/([A-Z0-9]+)$/): the last path segment when it is made of
\* capitals and digits only
AsinSegments == Asins
AsinOf(url) ==
    IF url.path # <<>> /\ url.path[Len(url.path)] \in AsinSegments
    THEN <<url.path[Len(url.path)]>> ELSE <<>>

\* The text of a rating label node: none (no node, or a text without digits and
\* separators), a number, or a text whose first run of digits and separators
\* holds separators only ("Not rated yet." for /[0-9.]+/, ", new" for /[0-9,]+/).
RatingText(kind, n) == [kind |-> kind, n |-> n]

\* Number(ratingValueStr.match(/[0-9.]+/)?.[0] || 0)
RatingValue(label) ==
    IF label.kind = "number" THEN Num(label.n)
    ELSE IF label.kind = "sep" THEN NaN
    ELSE Num(0)

\* Number(ratingCountStr.match(/[0-9,]+/)?.[0].replace(/,/g, "") || 0)
RatingCount(label) == IF label.kind = "number" THEN Num(label.n) ELSE Num(0)

\* Variant: the narrators are read from the item's narrator anchors.
ItemNarratorsOwn(node, baseUrl) ==
    ExtractCreators(node.narrators, baseUrl, "cleanNarratorUrl")

\* the second loop over page(".authorLabel a", elSel), which fills newBook.narrators
ItemNarrators(node, baseUrl) ==
    ExtractCreators(node.authors, baseUrl, "cleanNarratorUrl")

\* the callback of page(".productListItem").each: the summary Book of one item
\* node, or what it throws
ExtractItem(node, baseUrl) ==
    LET url == IF node.href.kind = "none" THEN Ok(<<>>)
               ELSE IF ~NewURL(node.href, baseUrl).ok THEN NewURL(node.href, baseUrl)
               ELSE Ok(<<cleanUrl(NewURL(node.href, baseUrl).val)>>)
        asin == IF url.val = <<>> THEN <<>> ELSE AsinOf(url.val[1])
        language == parseLanguage(node.language)
        authors == ExtractCreators(node.authors, baseUrl, "cleanUrl")
        narrators == ItemNarrators(node, baseUrl)
    IN IF ~url.ok THEN url
       ELSE IF ~authors.ok THEN authors
       ELSE IF ~narrators.ok THEN narrators
       ELSE Ok(SeriesFields(node.series, baseUrl)
               @@ [rating |-> [value |-> RatingValue(node.rating.value),
                               count |-> RatingCount(node.rating.count)]]
               @@ (IF asin # <<>> THEN "asin" :> asin[1] ELSE <<>>)
               @@ (IF node.runtime # <<>>
                   THEN "duration" :> getDurationFromStr(node.runtime) ELSE <<>>)
               @@ (IF node.title # <<>> THEN "cleanTitle" :> cleanTitle(node.title) ELSE <<>>)
               @@ (IF url.val # <<>> THEN "url" :> url.val[1] ELSE <<>>)
               @@ (IF language # <<>> THEN "language" :> language[1] ELSE <<>>)
               @@ Field("coverUrl", node, "cover")
               @@ [title |-> node.title, authors |-> authors.val, narrators |-> narrators.val])

\* page(".productListItem").each(...): audibleItems, or the first exception
ExtractItems(nodes, baseUrl) ==
    IF \E i \in 1..Len(nodes) : ~ExtractItem(nodes[i], baseUrl).ok
    THEN ExtractItem(nodes[Min({i \in 1..Len(nodes) : ~ExtractItem(nodes[i], baseUrl).ok})],
                     baseUrl)
    ELSE Ok([i \in 1..Len(nodes) |-> ExtractItem(nodes[i], baseUrl).val])

\* site = "us" and getFull = false by default
SearchSiteOf(params) == IF Has(params, "site") THEN params.site ELSE "us"
GetFullOf(params) == Has(params, "getFull") /\ params.getFull

\* Reference tables of the search fields (a few entries of each).
searchLanguages == [en |-> "18685580011", fr |-> "18685582011", de |-> "18685583011"]
searchCategories == [history |-> "18573518011", romance |-> "18580518011"]
searchDurations == ("<1" :> "18685630011") @@ ("1-3" :> "18685631011") @@ (">20" :> "18685635011")
releaseTimes == [soon |-> "18685637011", last30 |-> "18685638011", last90 |-> "18685639011"]
pageSizes == <<20, 30, 40, 50>>
audibleOriginal == Param("feature_ten_browse-bin", "18685526011")
plusCatalog == Param("audible_programs", "20956260011")
whispersync == Param("feature_three_browse-bin", "18685781011")
abridged == Param("feature_nine_browse-bin", "18685523011")
unabridged == Param("feature_nine_browse-bin", "18685524011")
audiobookFormat == Param("feature_twelve_browse-bin", "18685552011")

\* what String(v) prints for an inherited member of an object literal
NATIVE_FUNCTION == "function () { [native code] }"

\* table[key] when truthy: <<value>> for an own key, the inherited function for
\* a name of Object.prototype, <<>> (undefined) otherwise
TableGet(table, key) ==
    IF key \in DOMAIN table THEN <<table[key]>>
    ELSE IF key \in ObjectPrototypeKeys THEN <<NATIVE_FUNCTION>>
    ELSE <<>>

\* n.toString(), for the numbers the model draws
NumberToString(n) ==
    CASE n = 0 -> "0" [] n = 1 -> "1" [] n = 2 -> "2" [] n = 3 -> "3"
      [] n = 20 -> "20" [] n = 25 -> "25" [] n = 30 -> "30" [] n = 40 -> "40"
      [] n = 50 -> "50" [] n = 60 -> "60"

\* a parameter of the call, or its default when it is undefined
ParamOr(params, key, default) == IF Has(params, key) THEN params[key] ELSE default

\* Variant: the requested page size is sent as it is.
RequestedPageSize(params) == ParamOr(params, "pageSize", 20)

\* const realPageSize = pageSizes.includes(pageSize) ? pageSize : pageSizes[0]
RealPageSize(params) ==
    LET pageSize == ParamOr(params, "pageSize", 20)
    IN IF \E i \in 1..Len(pageSizes) : pageSizes[i] = pageSize
       THEN pageSize ELSE pageSizes[1]

\* ...(value && { key: value }) : one entry when the text is not empty
Spread(params, key, name) ==
    IF ParamOr(params, key, "") # "" THEN <<Param(name, params[key])>> ELSE <<>>

\* ...(flag && entry)
SpreadIf(flag, entry) == IF flag THEN <<entry>> ELSE <<>>

\* paramsObj, in the insertion order of its keys
ParamsObj(params) ==
    Spread(params, "title", "title")
    \o Spread(params, "keywords", "keywords")
    \o Spread(params, "author", "searchAuthor")
    \o Spread(params, "narrator", "narrator")
    \o Spread(params, "publisher", "publisher")
    \o (IF ~Has(params, "isAbridged") THEN <<>>
        ELSE IF params.isAbridged THEN <<abridged>> ELSE <<unabridged>>)
    \o SpreadIf(ParamOr(params, "isAudibleOriginal", FALSE), audibleOriginal)
    \o SpreadIf(ParamOr(params, "isPlusCatalog", FALSE), plusCatalog)
    \o SpreadIf(ParamOr(params, "isWhisperSync", FALSE), whispersync)
    \o <<Param("page", NumberToString(ParamOr(params, "pageNum", 1))),
          Param("pageSize", NumberToString(RealPageSize(params))),
          Param("ipRedirectOverride", "true"),
          audiobookFormat>>

\* if (value && table[value]) params.append(name, table[value])
AppendFrom(table, value, name) ==
    IF value # "" /\ TableGet(table, value) # <<>>
    THEN <<Param(name, TableGet(table, value)[1])>> ELSE <<>>

\* list.forEach((entry) => { if (table[entry]) params.append(name, table[entry]) })
AppendEach(table, list, name) ==
    LET App[k \in 0..Len(list)] ==
            IF k = 0 THEN <<>> ELSE App[k - 1] \o AppendFrom(table, list[k], name)
    IN App[Len(list)]

\* `${baseUrl}/search?${params.toString()}`
SearchUrl(params) ==
    [origin |-> BaseUrlOf(SearchSiteOf(params)), path |-> <<"search">>,
     query |-> ParamsObj(params)
               \o AppendFrom(releaseTimes, ParamOr(params, "releaseTime", ""), "publication_date")
               \o AppendFrom(searchCategories, ParamOr(params, "category", ""), "node")
               \o AppendEach(searchDurations, ParamOr(params, "durations", <<>>),
                             "feature_seven_browse-bin")
               \o AppendEach(searchLanguages,
                             [k \in 1..Len(ParamOr(params, "languages", <<>>)) |->
                                 ToLowerCase(params.languages[k])],
                             "feature_six_browse-bin")]

\* Variant: the site is kept in a variable of the module, which the latest
\* top-level getAudibleBook call has set.
GetBookPlainShared(asin, opts, body) ==
    LET site == IF bpc # "idle" THEN SiteOf(barg.opts) ELSE SiteOf(opts)
    IN IF body = <<>> THEN Throw(FetchError(BookUrl(asin, site)))
       ELSE LET baseUrl == BaseUrlOf(site)
                book == BaseBook(body[1], baseUrl)
            IN IF ~book.ok THEN book ELSE FinishBook(book.val, body[1], baseUrl)

\* getAudibleBook(asin, opts) without getAuthors has one await, the fetch: what it
\* settles to when the fetch ends (body = <<>>: it rejected), before its catch
GetBookPlain(asin, opts, body) ==
    IF body = <<>> THEN Throw(FetchError(BookUrl(asin, SiteOf(opts))))
    ELSE LET baseUrl == BaseUrlOf(SiteOf(opts))
             book == BaseBook(body[1], baseUrl)
         IN IF ~book.ok THEN book ELSE FinishBook(book.val, body[1], baseUrl)

\* the options searchAudible passes to getAudibleBook: { site }
HydrateOpts(params) == [site |-> SearchSiteOf(params)]

\* audibleItems.map((book) => book.asin ? getAudibleBook(book.asin, { site }) : book)
HydrateSlot(book) ==
    IF Has(book, "asin")
    THEN [st |-> "pending", net |-> "sent", body |-> <<>>, val |-> book, at |-> 0]
    ELSE [st |-> "ok", net |-> "none", body |-> <<>>, val |-> book, at |-> 0]

HydrateSlots(items) == [i \in 1..Len(items) |-> HydrateSlot(items[i])]

\* the detail fetches the fan-out starts, in the order of the list
DetailRequests(items, params) ==
    LET Req[k \in 0..Len(items)] ==
            IF k = 0 THEN <<>>
            ELSE IF Has(items[k], "asin")
                 THEN Req[k - 1] \o FetchOnce("detail", k,
                                      BookUrl(items[k].asin, SiteOf(HydrateOpts(params))))
                 ELSE Req[k - 1]
    IN Req[Len(items)]

\* Variant: a failed detail call is caught and the summary item kept.
SettledKeepingSummary(book, r) ==
    IF r.ok THEN [st |-> "ok", val |-> r.val] ELSE [st |-> "ok", val |-> book]

\* the promise of item `book` once its getAudibleBook has settled to r
Settled(book, r) ==
    IF r.ok
    THEN [st |-> "ok", val |-> r.val]
    ELSE [st |-> "err", val |-> book, err |-> BookCatchThrows(book.asin, r.err)]

SearchCall(params) ==
    /\ spc = "idle"
    /\ spc' = "fetching"
    /\ sarg' = params
    /\ netlog' = netlog \o FetchOnce("search", 0, SearchUrl(params))
    /\ UNCHANGED <<sitems, sslots, sout, spage, errlog, bvars, fvars>>

\* await fetch(searchUrl) or await res.text() rejects: nothing catches it
SearchFetchFail ==
    /\ spc = "fetching"
    /\ spc' = "failed"
    /\ sout' = [status |-> "failed", err |-> FetchError(SearchUrl(sarg))]
    /\ UNCHANGED <<sarg, sitems, sslots, spage, errlog, netlog, bvars, fvars>>

\* the body arrives: the items are extracted and, with getFull, the fan-out starts
SearchFetchOk(page) ==
    /\ spc = "fetching"
    /\ Absolute(SearchUrl(sarg))
    /\ LET items == ExtractItems(page.items, BaseUrlOf(SearchSiteOf(sarg)))
       IN IF ~items.ok
          THEN /\ spc' = "failed"
               /\ sout' = [status |-> "failed", err |-> items.err]
               /\ UNCHANGED <<sitems, sslots, netlog>>
          ELSE IF GetFullOf(sarg)
          THEN /\ spc' = "hydrating"
               /\ sitems' = items.val
               /\ sslots' = HydrateSlots(items.val)
               /\ netlog' = netlog \o DetailRequests(items.val, sarg)
               /\ sout' = [status |-> "none", totalResults |-> TotalResults(page.heading)]
          ELSE /\ spc' = "returned"
               /\ sitems' = items.val
               /\ sout' = [status |-> "returned",
                           totalResults |-> TotalResults(page.heading),
                           results |-> items.val]
               /\ UNCHANGED <<sslots, netlog>>
    /\ spage' = <<page>>
    /\ UNCHANGED <<sarg, errlog, bvars, fvars>>

\* Variant: every failure replaces the failure the call reports.
HydrateDoneLast(i, body) ==
    /\ spc \in {"hydrating", "failed"}
    /\ i \in 1..Len(sslots)
    /\ sslots[i].st = "pending"
    /\ LET asin == sitems[i].asin
           r == GetBookPlain(asin, HydrateOpts(sarg), body)
           slot == Settled(sitems[i], r)
                   @@ [net |-> IF body = <<>> THEN "failed" ELSE "ok", body |-> body,
                       at |-> DoneCount(sslots) + 1]
       IN /\ sslots' = [sslots EXCEPT ![i] = slot]
          /\ errlog' = IF r.ok THEN errlog ELSE errlog \o BookCatchLogs(asin, r.err)
          /\ IF slot.st = "err"
             THEN /\ spc' = "failed"
                  /\ sout' = [status |-> "failed", err |-> slot.err]
             ELSE UNCHANGED <<spc, sout>>
    /\ UNCHANGED <<sarg, sitems, spage, netlog, bvars, fvars>>

\* the getAudibleBook of item i settles (body = <<>>: its fetch rejected).  Its
\* catch block logs; the first rejection rejects Promise.all and with it the
\* call, while the other fetches stay in flight.
HydrateDone(i, body) ==
    /\ spc \in {"hydrating", "failed"}
    /\ i \in 1..Len(sslots)
    /\ sslots[i].st = "pending"
    /\ LET asin == sitems[i].asin
           r == GetBookPlain(asin, HydrateOpts(sarg), body)
           slot == Settled(sitems[i], r)
                   @@ [net |-> IF body = <<>> THEN "failed" ELSE "ok", body |-> body,
                       at |-> DoneCount(sslots) + 1]
       IN /\ sslots' = [sslots EXCEPT ![i] = slot]
          /\ errlog' = IF r.ok THEN errlog ELSE errlog \o BookCatchLogs(asin, r.err)
          /\ IF spc = "hydrating" /\ slot.st = "err"
             THEN /\ spc' = "failed"
                  /\ sout' = [status |-> "failed", err |-> slot.err]
             ELSE UNCHANGED <<spc, sout>>
    /\ UNCHANGED <<sarg, sitems, spage, netlog, bvars, fvars>>

\* Promise.all resolves: audibleItems is replaced and searchResults returned
HydrateJoined ==
    /\ spc = "hydrating"
    /\ \A i \in 1..Len(sslots) : sslots[i].st = "ok"
    /\ spc' = "returned"
    /\ sout' = [status |-> "returned", totalResults |-> sout.totalResults,
                results |-> JoinAll(sslots)]
    /\ UNCHANGED <<sarg, sitems, sslots, spage, errlog, netlog, bvars, fvars>>

\* the search parameters the model draws: getFull and site
SearchParamsSet ==
    {[keywords |-> "harry"], [getFull |-> TRUE], [site |-> "zz"],
     [site |-> "fr", getFull |-> TRUE], [site |-> "constructor", getFull |-> TRUE]}

ItemNode(title, href, authors) ==
    [title |-> title, cover |-> "cover.jpg", language |-> [s |-> "English", len |-> 7],
     href |-> href, runtime |-> <<Piece(8, "hrs"), Piece(18, "mins")>>,
     rating |-> [value |-> RatingText("number", 5), count |-> RatingText("number", 100)],
     authors |-> authors,
     narrators |-> <<Anchor("Ned", RelHref(<<"search">>, <<Param("searchNarrator", "Ned"),
                                                          Param("ref", "a_search")>>))>>,
     series |-> NoSeries]

ItemNodes ==
    {ItemNode(<<"Foo", ", Book", "1">>,
              RelHref(<<"pd", "Foo-Audiobook", "B01">>, <<Param("ref", "a_search")>>),
              <<Anchor("Ann", RelHref(<<"author", "Ann", "B0ANN">>, <<Param("ref", "a_s")>>))>>),
     ItemNode(<<"Bar">>, RelHref(<<"pd", "Bar-Audiobook", "B02">>, <<>>),
              <<Anchor("Bob", RelHref(<<"author", "Bob", "B0BOB">>, <<>>))>>),
     ItemNode(<<"Baz">>, NoHref, <<>>),
     ItemNode(<<"Show">>, RelHref(<<"podcast", "Show">>, <<>>), <<>>),
     ItemNode(<<"Bad">>, BadHref, <<>>)}

SearchPages ==
    {[heading |-> h, items |-> it] :
        h \in {<<>>, <<[n |-> 2, commas |-> FALSE]>>, <<[n |-> 1234, commas |-> TRUE]>>},
        it \in SeqsUpTo(ItemNodes, MaxItems)}

\* the detail pages the hydration fetches draw from: one author, one narrator
\* and one ld+json script of any kind
HydratePages ==
    {p \in PagesOfShape(1, 1, 1) :
        /\ p.canonical # NONE
        /\ p.authors[1].text = "Ann"
        /\ p.narrators[1].text = "Ned"}

Init ==
    /\ bpc = "idle" /\ barg = <<>> /\ bpage = <<>> /\ bbook = <<>>
    /\ bslots = <<>> /\ bout = [status |-> "none"]
    /\ spc = "idle" /\ sarg = <<>> /\ sitems = <<>> /\ sslots = <<>>
    /\ sout = [status |-> "none"] /\ spage = <<>>
    /\ errlog = <<>> /\ netlog = <<>>
    /\ fin = <<>> /\ fout = <<>>

\* One top-level call is made, of either operation.
BookCalled == spc = "idle" /\ \E asin \in Asins, opts \in OptsSet : BookCall(asin, opts)
BookFetched == \E page \in DetailPages : BookFetchOk(page)
ProfileFailed == \E i \in 1..MaxNodes : ProfileDone(i, <<>>)
ProfileFetched == \E i \in 1..MaxNodes, page \in ProfilePages : ProfileDone(i, <<page>>)
SearchCalled == bpc = "idle" /\ \E params \in SearchParamsSet : SearchCall(params)
SearchFetched == \E page \in SearchPages : SearchFetchOk(page)
HydrateFailed == \E i \in 1..MaxItems : HydrateDone(i, <<>>)
HydrateFetched == \E i \in 1..MaxItems, page \in HydratePages : HydrateDone(i, <<page>>)

Next ==
    \/ BookCalled
    \/ BookFetchFail
    \/ BookFetched
    \/ ProfileFailed
    \/ ProfileFetched
    \/ AuthorsJoined
    \/ SearchCalled
    \/ SearchFetchFail
    \/ SearchFetched
    \/ HydrateFailed
    \/ HydrateFetched
    \/ HydrateJoined

Spec == Init /\ [][Next]_vars

----------------------------------------------------------------------------
(* Two top-level calls at once: a getAudibleBook call with getAuthors on the  *)
(* French site and a searchAudible call with getFull on the default site,    *)
(* each started at any time, their fetches ending in any order.              *)

\* the detail pages drawn here: one author, one narrator and either a breadcrumb
\* list or a script no decoder accepts
PagesAtOnce ==
    {p \in HydratePages :
        /\ p.scripts[1] = BadScript \/ (\E v \in 1..Len(p.scripts[1].vals) :
                                           /\ IsObject(p.scripts[1].vals[v])
                                           /\ p.scripts[1].vals[v].type = "BreadcrumbList"
                                           /\ Has(p.scripts[1].vals[v], "itemListElement"))}

NextAtOnce ==
    \/ BookCall("B02", [site |-> "fr", getAuthors |-> TRUE])
    \/ BookFetchFail
    \/ \E page \in PagesAtOnce : BookFetchOk(page)
    \/ ProfileDone(1, <<>>)
    \/ \E page \in ProfilePages : ProfileDone(1, <<page>>)
    \/ AuthorsJoined
    \/ SearchCall([getFull |-> TRUE])
    \/ SearchFetchFail
    \/ \E page \in {q \in SearchPages : q.heading # <<>> /\ ~q.heading[1].commas
                                          /\ Len(q.items) = 2} : SearchFetchOk(page)
    \/ \E i \in 1..2 : HydrateDone(i, <<>>)
    \/ \E i \in 1..2, page \in PagesAtOnce : HydrateDone(i, <<page>>)
    \/ HydrateJoined

SpecAtOnce == Init /\ [][NextAtOnce]_vars

----------------------------------------------------------------------------
(* The helper functions called on their own, each on the inputs drawn for it. *)

\* titles: up to MaxWords pieces
TitlePieces == {"Foo", ", Book", "1", "One", "(Unabridged)", "Unabridged"}
Titles == SeqsUpTo(TitlePieces, MaxWords)

\* runtime texts: up to two pieces
RuntimePieces ==
    {Piece(8, "hrs"), Piece(1, "hr"), Piece(18, "mins"), Piece(0, "mins"), Piece(0, "words")}
Runtimes == SeqsUpTo(RuntimePieces, 2)

\* series labels: the link nodes of the label and the tokens of its text
SeriesAnchors ==
    {Anchor("HP", RelHref(<<"series", "HP">>, <<Param("ref", "s")>>)),
     Anchor("LOTR", NoHref)}
SeriesTokens ==
    {Token("HP", FALSE, TRUE, 0), Token("LOTR", FALSE, TRUE, 0),
     Token("Book 1", TRUE, FALSE, 1), Token("Book Two", TRUE, TRUE, 0),
     Token("Book 0", TRUE, FALSE, 0), Token("Book -1", TRUE, FALSE, -1)}
SeriesDoms ==
    {[anchors |-> a, label |-> l] :
        a \in SeqsUpTo(SeriesAnchors, 2), l \in SeqsUpTo(SeriesTokens, MaxWords) \ {<<>>}}

\* result items: every pair of rating labels
RatingValueTexts == {RatingText("none", 0), RatingText("number", 5), RatingText("sep", 0)}
RatingCountTexts == {RatingText("none", 0), RatingText("number", 1234), RatingText("sep", 0)}
RatedItemNodes ==
    {[ItemNode(<<"Bar">>, RelHref(<<"pd", "Bar-Audiobook", "B02">>, <<>>), <<>>)
        EXCEPT !.rating = [value |-> v, count |-> c]] :
        v \in RatingValueTexts, c \in RatingCountTexts}

\* search parameters: the page size; the filters; the rest
PageSizeParams ==
    {<<>>} \cup {[pageSize |-> n] : n \in {0, 20, 25, 30, 40, 50, 60}}
DurationEntries == {"1-3", ">20", "2-4", "toString"}
LanguageEntries == {"en", "FR", "xx", "constructor"}
CategoryEntries == {"", "history", "cooking", "valueOf"}
FilterParams ==
    {[category |-> c, durations |-> d, languages |-> l] :
        c \in CategoryEntries, d \in SeqsUpTo(DurationEntries, MaxFilters),
        l \in SeqsUpTo(LanguageEntries, MaxFilters)}
OtherParams ==
    {[keywords |-> "harry"],
     [title |-> "Foo", author |-> "Ann", pageNum |-> 2],
     [narrator |-> "Ned", publisher |-> "", isAbridged |-> TRUE],
     [isAbridged |-> FALSE, isWhisperSync |-> TRUE, releaseTime |-> "soon"],
     [isAudibleOriginal |-> TRUE, isPlusCatalog |-> TRUE, releaseTime |-> "never"]}

\* fn(arg) is called
Call(fn, arg) == [fn |-> fn, arg |-> arg]

CleanTitleCalled ==
    /\ fout = <<>>
    /\ \E title \in Titles :
        /\ fin' = Call("cleanTitle", title)
        /\ fout' = <<cleanTitle(title)>>
        /\ UNCHANGED <<bvars, svars, errlog, netlog>>

DurationCalled ==
    /\ fout = <<>>
    /\ \E runtimeStr \in Runtimes :
        /\ fin' = Call("getDurationFromStr", runtimeStr)
        /\ fout' = <<getDurationFromStr(runtimeStr)>>
        /\ UNCHANGED <<bvars, svars, errlog, netlog>>

\* the "Get series and series part" block, run on a series label
SeriesCalled ==
    /\ fout = <<>>
    /\ \E dom \in SeriesDoms :
        /\ fin' = Call("series", dom)
        /\ fout' = <<SeriesFields(dom, siteCountries.us)>>
        /\ UNCHANGED <<bvars, svars, errlog, netlog>>

\* the .productListItem callback, run on an item node
ItemCalled ==
    /\ fout = <<>>
    /\ \E node \in RatedItemNodes :
        /\ fin' = Call("item", node)
        /\ fout' = <<ExtractItem(node, siteCountries.us)>>
        /\ UNCHANGED <<bvars, svars, errlog, netlog>>

\* the construction of searchUrl, run on the parameters of a call
SearchUrlCalled ==
    /\ fout = <<>>
    /\ \E params \in PageSizeParams \cup OtherParams \cup FilterParams :
        /\ fin' = Call("searchUrl", params)
        /\ fout' = <<SearchUrl(params)>>
        /\ UNCHANGED <<bvars, svars, errlog, netlog>>

\* cleanUrl and cleanNarratorUrl, run on a resolved url
UrlCleanerCalled ==
    /\ fout = <<>>
    /\ \E clean \in {"cleanUrl", "cleanNarratorUrl"},
          path \in {<<"search">>, <<"author", "Ann", "B0ANN">>},
          query \in SeqsUpTo({Param("searchNarrator", "Ned"), Param("ref", "a_pd"),
                              Param("pf_rd_p", "1")}, MaxParams) :
        /\ fin' = Call(clean, [origin |-> siteCountries.us, path |-> path, query |-> query])
        /\ fout' = <<CleanWith(clean, fin'.arg)>>
        /\ UNCHANGED <<bvars, svars, errlog, netlog>>

\* a language token: its text and its length
Lang(s, len) == [s |-> s, len |-> len]

\* the codes and names of the table rows, in either case, and tokens of every
\* length that the table does not hold
LanguageTokens ==
    {Lang("en", 2), Lang("EN", 2), Lang("eng", 3), Lang("English", 7), Lang("ENGLISH", 7),
     Lang("fr", 2), Lang("fra", 3), Lang("fre", 3), Lang("FRE", 3), Lang("French", 6),
     Lang("Francais", 8), Lang("io", 2), Lang("ido", 3), Lang("Ido", 3),
     Lang("", 0), Lang("xx", 2), Lang("xyz", 3), Lang("zz-ZZ", 5), Lang("Klingon", 7)}

ParseLanguageCalled ==
    /\ fout = <<>>
    /\ \E lang \in LanguageTokens :
        /\ fin' = Call("parseLanguage", lang)
        /\ fout' = <<parseLanguage(lang)>>
        /\ UNCHANGED <<bvars, svars, errlog, netlog>>

\* ld+json scripts beside DetailScripts: one only JSON.parse accepts, and
\* breadcrumb lists with no item, with the root only, and with an item that is a
\* string
ChainScripts ==
    DetailScripts
    \cup {StrictOnlyScript(<<ProductBlock("B02")>>),
          Script(<<BreadcrumbBlock(<<>>)>>),
          Script(<<BreadcrumbBlock(<<Thing("Audible", "/")>>)>>),
          Script(<<BreadcrumbBlock(<<Thing("Audible", "/"), [kind |-> "string"],
                                    Thing("Fantasy", "/cat/Fantasy")>>)>>)}

\* getAudibleBook without getAuthors, run on a fetched detail page: what it
\* settles to, and its local ldJsonList
GetBookCalled ==
    /\ fout = <<>>
    /\ \E opts \in {<<>>, [site |-> "fr"]}, x \in DomExtras,
          outside \in {<<>>, <<Token("LOTR", FALSE, TRUE, 0), Token("Book 3", TRUE, FALSE, 3)>>},
          scripts \in SeqsUpTo(ChainScripts, MaxNodes) :
        /\ fin' = Call("getAudibleBook",
                       [asin |-> "B01", opts |-> opts,
                        page |-> [canonical |-> x.canonical, series |-> x.series,
                                  outside |-> outside, copyright |-> x.copyright,
                                  authors |-> <<>>, narrators |-> <<>>,
                                  scripts |-> scripts]])
        /\ fout' = <<[book |-> GetBookPlain("B01", opts, <<fin'.arg.page>>),
                      ldJsonList |-> DecodeScripts(scripts)]>>
        /\ UNCHANGED <<bvars, svars, errlog, netlog>>

NextHelpers ==
    \/ GetBookCalled
    \/ ParseLanguageCalled
    \/ UrlCleanerCalled
    \/ CleanTitleCalled
    \/ DurationCalled
    \/ SeriesCalled
    \/ ItemCalled
    \/ SearchUrlCalled

SpecHelpers == Init /\ [][NextHelpers]_vars

----------------------------------------------------------------------------
(* Properties. *)

ThePage == bpage[1]
TheBaseUrl == BaseUrlOf(SiteOf(barg.opts))
BookSettled == bpc \in {"returned", "failed"}
Returned == bout.status = "returned"
SearchReturned == sout.status = "returned"

\* what the getAudibleBook call of item i settled to, from the body its fetch got
DetailOutcome(i) == GetBookPlain(sitems[i].asin, [site |-> SearchSiteOf(sarg)], sslots[i].body)
DetailSettled(i) == sslots[i].net \in {"ok", "failed"}

\* C1: with getFull the returned results have the length of the extracted items,
\* and position i holds the record getAudibleBook produced for item i when the
\* item has an asin and the item's own summary record when it has none, in
\* whatever order the detail fetches completed.
C1_HydrationKeepsOrder ==
    (SearchReturned /\ GetFullOf(sarg)) =>
        /\ Len(sout.results) = Len(sitems)
        /\ \A i \in 1..Len(sitems) :
              sout.results[i] = IF Has(sitems[i], "asin") THEN DetailOutcome(i).val
                                ELSE sitems[i]

\* two hydrated items whose fetches completed in the reverse of the list order
C1_Witness ==
    /\ SearchReturned /\ GetFullOf(sarg) /\ Len(sitems) = 2
    /\ sslots[1].at = 2 /\ sslots[2].at = 1
    /\ sout.results[1] # sout.results[2]
    /\ sout.results[1] # sitems[1]

\* C2: with getFull, once the getAudibleBook call of some item has failed the
\* searchAudible call has failed: it holds no results list, partial or patched.
C2_HydrationFailsWhole ==
    (\E i \in 1..Len(sslots) : DetailSettled(i) /\ ~DetailOutcome(i).ok) =>
        /\ spc = "failed"
        /\ sout.status = "failed"
        /\ ~Has(sout, "results")

\* one item hydrated, then the other failed
C2_Witness ==
    /\ spc = "failed" /\ Len(sslots) = 2
    /\ sslots[1].st = "ok" /\ sslots[1].at = 1
    /\ sslots[2].st = "err" /\ sslots[2].at = 2

\* the enrichment of author i failed: its fetch, or the parsing of the page
EnrichmentFailed(i) ==
    \/ bslots[i].net = "failed"
    \/ bslots[i].net = "ok" /\ ~EnrichFrom(bbook.authors[i], bslots[i].body[1]).ok
EnrichmentDone(i) ==
    bslots[i].net = "ok" /\ EnrichFrom(bbook.authors[i], bslots[i].body[1]).ok

\* C3: with getAuthors, an author whose profile fetch or page parsing failed is
\* returned as the pre-enrichment Creator, field for field; the other authors are
\* enriched from their own pages; and the call fails only if the rest of the
\* extraction fails, never because of an enrichment.
C3_FailedEnrichmentKeepsCreator ==
    (BookSettled /\ bslots # <<>>) =>
        /\ Returned <=> FinishBook(bbook, ThePage, TheBaseUrl).ok
        /\ Returned =>
              \A i \in 1..Len(bslots) :
                 /\ EnrichmentFailed(i) => bout.book.authors[i] = bbook.authors[i]
                 /\ EnrichmentDone(i) =>
                       bout.book.authors[i]
                          = EnrichFrom(bbook.authors[i], bslots[i].body[1]).newAuthor

\* the first author's page could not be parsed, the second author was enriched
C3_Witness ==
    /\ Returned /\ Len(bslots) = 2
    /\ bslots[1].net = "ok" /\ EnrichmentFailed(1)
    /\ EnrichmentDone(2) /\ Has(bout.book.authors[2], "bio")
    /\ ~Has(bout.book.authors[1], "thumbnailImageUrl")

\* the decoded ld+json values of the fetched detail page
TheBlocks == DecodeScripts(ThePage.scripts).val
\* the positions of the blocks of one kind
BlocksOf(vals, type) == {i \in 1..Len(vals) : IsObject(vals[i]) /\ vals[i].type = type}
Kinds == {"Audiobook", "Product", "BreadcrumbList"}
\* the record the DOM alone supplies: url, authors, narrators, series, copyright
DomOnly(authors) ==
    CopyrightFields(ThePage.copyright)
    @@ DetailSeriesFields(ThePage, TheBaseUrl)
    @@ [narrators |-> ExtractCreators(ThePage.narrators, TheBaseUrl, "cleanNarratorUrl").val]
    @@ (IF ThePage.canonical # NONE THEN "url" :> ThePage.canonical ELSE <<>>)
    @@ [authors |-> authors]
\* the page was fetched, its scripts all decode and its anchors all resolve
PageWellFormed ==
    /\ bpage # <<>>
    /\ DecodeScripts(ThePage.scripts).ok
    /\ BaseBook(ThePage, TheBaseUrl).ok
    /\ ExtractCreators(ThePage.narrators, TheBaseUrl, "cleanNarratorUrl").ok

\* C4: when a fetched detail page holds no block of one of the kinds Audiobook,
\* Product, BreadcrumbList, getAudibleBook still returns a Book, without the
\* fields of that kind; with none of the three kinds it returns the DOM-only
\* record.  (The code does not satisfy this: a null value among the decoded
\* blocks, or a BreadcrumbList without itemListElement, makes the call fail
\* whichever kinds are absent.)
C4_AbsentKindOnlyDegrades ==
    (BookSettled /\ PageWellFormed) =>
        /\ \A K \in Kinds :
              BlocksOf(TheBlocks, K) = {} =>
                 Returned /\ KindFields[K] \cap DOMAIN bout.book = {}
        /\ (\A K \in Kinds : BlocksOf(TheBlocks, K) = {}) =>
              Returned /\ bout.book = DomOnly(bout.book.authors)

\* C5: getAudibleBook fails only if the detail-page fetch fails or some ld+json
\* script is rejected by both decoders.  (The code does not satisfy this: it also
\* fails on a BreadcrumbList without itemListElement, on a null block and on an
\* author or narrator href the URL parser rejects.)
C5_FailsOnlyOnFetchOrDecode ==
    bpc = "failed" => (bpage = <<>> \/ ~DecodeScripts(ThePage.scripts).ok)

\* the error names the asin: in a field of its own, or in the url it quotes
Tagged(err, asin) ==
    \/ Has(err, "asin") /\ err.asin = asin
    \/ Has(err, "url") /\ \E k \in 1..Len(err.url.path) : err.url.path[k] = asin
\* the console holds the catch block's line for the asin
Logged(asin) == \E k \in 1..Len(errlog) : errlog[k] = BookCatchLogs(asin, <<>>)[1]

\* C6 as stated: whenever getAudibleBook fails, the failure delivered to the
\* caller is tagged with the asin being processed and preserves the cause.
C6_FailureTaggedWithAsin ==
    bpc = "failed" =>
        /\ Tagged(bout.err, barg.asin)
        /\ Has(bout.err, "cause") \/ bout.err = GetBookPlain(barg.asin, barg.opts, bpage).err

\* C6 as the code has it: whenever getAudibleBook fails, it has written a console
\* line naming the asin, and what the caller receives is the underlying error
\* itself, unchanged and without any asin attached; the same holds for every
\* getAudibleBook call searchAudible makes.
C6_FailureLogsAsinAndRethrows ==
    /\ bpc = "failed" =>
          /\ bout.err = GetBookPlain(barg.asin, barg.opts, bpage).err
          /\ ~Has(bout.err, "asin")
          /\ Logged(barg.asin)
    /\ \A i \in 1..Len(sslots) :
          sslots[i].st = "err" =>
             /\ sslots[i].err = DetailOutcome(i).err
             /\ ~Has(sslots[i].err, "asin")
             /\ Logged(sitems[i].asin)

\* a parse failure: the caller receives a bare TypeError
C6_Witness ==
    /\ bpc = "failed" /\ bpage # <<>>
    /\ bout.err.name = "TypeError" /\ ~Tagged(bout.err, barg.asin)
    /\ Logged(barg.asin)

\* how many times the network operation (op, idx) was put on the wire
Attempts(op, idx) ==
    Cardinality({k \in 1..Len(netlog) : netlog[k].op = op /\ netlog[k].idx = idx})
Sent(op) == {netlog[k].idx : k \in {j \in 1..Len(netlog) : netlog[j].op = op}}

\* C7: within one top-level call no network operation is attempted twice, in any
\* state, also after a failure.  searchAudible sends exactly one search fetch, no
\* profile fetch, and detail fetches only with getFull, one per item that has an
\* asin; getAudibleBook sends exactly one detail fetch, no search fetch, and
\* profile fetches only with getAuthors, one per author that has a url.
C7_OneAttemptPerOperation ==
    /\ \A k \in 1..Len(netlog) : Attempts(netlog[k].op, netlog[k].idx) = 1
    /\ spc # "idle" =>
          /\ Attempts("search", 0) = 1
          /\ Sent("profile") = {}
          /\ Sent("detail") \subseteq {i \in 1..Len(sitems) : Has(sitems[i], "asin")}
          /\ Sent("detail") # {} => GetFullOf(sarg)
    /\ bpc # "idle" =>
          /\ Attempts("detail", 0) = 1
          /\ Sent("search") = {} /\ Sent("detail") = {0}
          /\ Sent("profile") # {} => GetAuthorsOf(barg.opts)
          /\ bpc # "fetching" =>
                Sent("profile") \subseteq {i \in 1..Len(bslots) : Has(bbook.authors[i], "url")}

\* a hydrating search whose first detail fetch failed and whose second ended
\* later: three requests in all, none repeated
C7_Witness ==
    /\ spc = "failed" /\ Len(sslots) = 2
    /\ sslots[1].net = "failed" /\ sslots[1].at = 1 /\ sslots[2].at = 2
    /\ Len(netlog) = 3

\* the Creator carries one of the enrichment fields
Enriched(c) == Has(c, "id") \/ Has(c, "bio") \/ Has(c, "imageUrl")
AnyEnriched(creators) == \E i \in 1..Len(creators) : Enriched(creators[i])

\* C8: in a Book returned by getAudibleBook no narrator has id, bio or imageUrl,
\* and an author has one only if getAuthors was asked for and that author's
\* profile fetch succeeded; in the results of searchAudible, with or without
\* getFull, no author and no narrator has any of them.
C8_EnrichedOnlyFetchedAuthors ==
    /\ Returned =>
          /\ ~AnyEnriched(bout.book.narrators)
          /\ \A i \in 1..Len(bout.book.authors) :
                Enriched(bout.book.authors[i]) =>
                   /\ GetAuthorsOf(barg.opts)
                   /\ bslots[i].net = "ok"
    /\ SearchReturned =>
          \A i \in 1..Len(sout.results) :
             /\ ~AnyEnriched(sout.results[i].authors)
             /\ ~AnyEnriched(sout.results[i].narrators)

\* a returned Book with an enriched author next to a narrator that has a url
C8_Witness ==
    /\ Returned /\ Len(bout.book.authors) = 1 /\ Len(bout.book.narrators) = 1
    /\ Has(bout.book.authors[1], "id") /\ Has(bout.book.authors[1], "imageUrl")
    /\ Has(bout.book.narrators[1], "url")

\* C9 as stated: whenever getAudibleBook(asin) returns a Book, its asin equals
\* the requested asin.
C9_AsinEqualsRequested ==
    Returned => Has(bout.book, "asin") /\ bout.book.asin = barg.asin

\* C9 as the code has it: the asin of a returned Book is the productID of the
\* first Product block of the page and is absent when the page has no Product
\* block; the requested asin plays no part in it.
C9_AsinIsProductId ==
    Returned =>
        IF BlocksOf(TheBlocks, "Product") = {}
        THEN ~Has(bout.book, "asin")
        ELSE /\ Has(bout.book, "asin")
             /\ bout.book.asin = TheBlocks[Min(BlocksOf(TheBlocks, "Product"))].productID

\* the page answers with the Product block of another asin
C9_Witness ==
    /\ Returned /\ Has(bout.book, "asin") /\ Has(bout.book, "sku")
    /\ bout.book.asin # barg.asin

\* C10: the returned authors list has one entry per author anchor of the page,
\* in document order: entry i is the Creator of anchor i, enriched or not as its
\* own profile fetch went, whatever the order in which the fetches ended; and a
\* profile fetch is on the wire only once the base list holds every anchor.
C10_AuthorsOnePerAnchorInOrder ==
    /\ Returned =>
          /\ Len(bout.book.authors) = Len(ThePage.authors)
          /\ \A i \in 1..Len(ThePage.authors) :
                LET base == CreatorOf(ThePage.authors[i], TheBaseUrl, "cleanUrl")
                IN bout.book.authors[i] =
                      IF GetAuthorsOf(barg.opts) /\ Has(base, "url")
                      THEN parseAuthorInfo(base, bslots[i].body) ELSE base
    /\ Sent("profile") # {} =>
          /\ bpage # <<>>
          /\ Len(bbook.authors) = Len(ThePage.authors)
          /\ Len(bslots) = Len(ThePage.authors)

\* two authors whose profile fetches ended in reverse order, the first failed
C10_Witness ==
    /\ Returned /\ Len(ThePage.authors) = 2 /\ Len(bslots) = 2
    /\ bslots[1].at = 2 /\ bslots[2].at = 1
    /\ bslots[1].net = "failed" /\ Enriched(bout.book.authors[2])
    /\ bout.book.authors[1].name = ThePage.authors[1].text

\* the search page as fetched, and whether it is one a site that honours the
\* request could send: a summary heading whose count covers the items listed,
\* and no more items than the page size asked for
TheSearchPage == spage[1]
PageHonoursRequest ==
    /\ spage # <<>>
    /\ TheSearchPage.heading # <<>>
    /\ TheSearchPage.heading[1].n >= Len(TheSearchPage.items)
    /\ Len(TheSearchPage.items) <= 20

\* C11: a search with only keywords set returns at most 20 results and a
\* totalResults that is a number not below the number of results.  (The code
\* does not satisfy this on a page whose heading counts with a thousands
\* separator: totalResults is then NaN, which is not >= anything.)
C11_ResultsWithinPageAndTotal ==
    (SearchReturned /\ DOMAIN sarg = {"keywords"} /\ PageHonoursRequest) =>
        /\ Len(sout.results) <= 20
        /\ ~sout.totalResults.nan
        /\ sout.totalResults.n >= Len(sout.results)

\* C12: totalResults is the number N of a heading ending in "N results", also
\* when N is written with thousands separators, and 0 without such a heading.
\* (The code does not satisfy this: Number("1,234") is NaN.)
C12_TotalResultsIsHeadingCount ==
    (spage # <<>> /\ Has(sout, "totalResults")) =>
        sout.totalResults = Num(IF TheSearchPage.heading = <<>> THEN 0
                                ELSE TheSearchPage.heading[1].n)

\* C14: once the search page is fetched, no failure inside one item aborts the
\* extraction: without getFull the call returns, with one result per item node.
\* (The code does not satisfy this: new URL on the title link or on an author
\* link is outside any try block.)
C14_ItemFailureOnlyDegrades ==
    (spage # <<>> /\ ~GetFullOf(sarg)) =>
        /\ SearchReturned
        /\ Len(sout.results) = Len(TheSearchPage.items)

\* the base url the locale table gives a site tag: its own entry, else the us one
ConfiguredBase(site) ==
    IF site \in DOMAIN siteCountries THEN siteCountries[site] ELSE siteCountries.us

\* C16: the primary fetch of either operation goes to the url the table maps the
\* site tag to, and to the us url for every tag the table does not list; with
\* getFull every detail fetch goes to the origin of the search.  (The code does
\* not satisfy this for a tag that names a member of Object.prototype.)
C16_BaseUrlFallsBackToUs ==
    /\ spc # "idle" =>
          /\ netlog[1].url.origin = ConfiguredBase(SearchSiteOf(sarg))
          /\ \A k \in 2..Len(netlog) : netlog[k].url.origin = netlog[1].url.origin
    /\ bpc # "idle" => netlog[1].url.origin = ConfiguredBase(SiteOf(barg.opts))

\* the helper fn has been called and has returned
Returns(fn) == fout # <<>> /\ fin.fn = fn
Max(S) == CHOOSE x \in S : \A y \in S : x >= y

\* the first candidate entry named like the token before token i, if any
EntryBefore(series, label, i) ==
    LET named == {j \in 1..Len(series) : series[j].name = label[i - 1].text}
    IN IF named = {} THEN {} ELSE {Min(named)}
\* the "Book N" tokens, N a positive number, that follow the name of entry j
MarksOf(series, label, j) ==
    {i \in 2..Len(label) :
        /\ label[i].book /\ ~label[i].nan /\ label[i].num > 0
        /\ j \in EntryBefore(series, label, i)}

\* C13: a series entry carries a part exactly when a token "Book N" with a
\* number N follows the entry's name in the label, the part is that N, and
\* every part is positive; a non-numeric token, a token without a matching
\* name before it, or a first token sets nothing.  (The code does not satisfy
\* this: "Book -1" after a matching name sets part = -1.)
C13_PartFollowsPrecedingName ==
    (Returns("series") /\ Has(fout[1], "series")) =>
        LET label == fin.arg.label
            series == fout[1].series
        IN \A j \in 1..Len(series) :
              /\ Has(series[j], "part") <=> MarksOf(series, label, j) # {}
              /\ Has(series[j], "part") =>
                    /\ series[j].part > 0
                    /\ series[j].part = label[Max(MarksOf(series, label, j))].num

\* the values of the query parameters called name, in the order of the url
QueryValues(url, name) ==
    LET Val[k \in 0..Len(url.query)] ==
            IF k = 0 THEN <<>>
            ELSE IF url.query[k].k = name THEN Append(Val[k - 1], url.query[k].v)
            ELSE Val[k - 1]
    IN Val[Len(url.query)]

\* C15: the pageSize parameter of the search url is the requested page size
\* when that is 20, 30, 40 or 50, and 20 for any other request and for none.
C15_PageSizeSentIsAllowed ==
    Returns("searchUrl") =>
        QueryValues(fout[1], "pageSize") =
            <<IF Has(fin.arg, "pageSize") /\ fin.arg.pageSize \in {20, 30, 40, 50}
              THEN NumberToString(fin.arg.pageSize) ELSE "20">>

\* a page size outside the set was asked for, and 20 was sent
C15_Witness ==
    /\ Returns("searchUrl") /\ Has(fin.arg, "pageSize") /\ fin.arg.pageSize = 25
    /\ QueryValues(fout[1], "pageSize") = <<"20">>

\* the codes of the entries of list that the table lists, in the order of list
CodesOf(table, list) ==
    LET Code[k \in 0..Len(list)] ==
            IF k = 0 THEN <<>>
            ELSE IF list[k] \in DOMAIN table THEN Append(Code[k - 1], table[list[k]])
            ELSE Code[k - 1]
    IN Code[Len(list)]

\* C17: the duration parameters of the search url are the codes of the listed
\* durations, in input order, the language parameters those of the listed
\* languages, an entry or a category the tables do not list adds nothing, and
\* the audiobook-format parameter occurs once.  (The code does not satisfy
\* this for an entry that names a member of Object.prototype.)
C17_FiltersAreRecognizedCodes ==
    Returns("searchUrl") =>
        LET durations == ParamOr(fin.arg, "durations", <<>>)
            langs == ParamOr(fin.arg, "languages", <<>>)
            category == ParamOr(fin.arg, "category", "")
        IN /\ QueryValues(fout[1], "feature_seven_browse-bin")
                 = CodesOf(searchDurations, durations)
           /\ QueryValues(fout[1], "feature_six_browse-bin")
                 = CodesOf(searchLanguages,
                           [k \in 1..Len(langs) |-> ToLowerCase(langs[k])])
           /\ QueryValues(fout[1], "node") = CodesOf(searchCategories, <<category>>)
           /\ Len(QueryValues(fout[1], "feature_twelve_browse-bin")) = 1

\* C18: every extracted item has a rating whose value and count are the numbers
\* of the two labels, and 0 for a label that is absent or holds no number.
\* (The code does not satisfy this: a value label without a digit but with a
\* full stop, such as "Not rated yet.", gives NaN.)
C18_RatingIsNumbersOrZero ==
    Returns("item") =>
        /\ fout[1].ok
        /\ Has(fout[1].val, "rating")
        /\ fout[1].val.rating.value =
              Num(IF fin.arg.rating.value.kind = "number" THEN fin.arg.rating.value.n ELSE 0)
        /\ fout[1].val.rating.count =
              Num(IF fin.arg.rating.count.kind = "number" THEN fin.arg.rating.count.n ELSE 0)

\* the positions of the pieces of a runtime text with a given unit
PiecesOf(runtimeStr, unit) == {i \in 1..Len(runtimeStr) : runtimeStr[i].unit = unit}

\* C19: for a runtime text with at most one "a hrs" and at most one "b mins",
\* getDurationFromStr returns a*3600 + b*60, a missing part counting as 0; it
\* returns a number for every text, and 0 for a text with neither part.
C19_DurationIsHoursAndMinutes ==
    Returns("getDurationFromStr") =>
        LET hrs == PiecesOf(fin.arg, "hrs")
            mins == PiecesOf(fin.arg, "mins")
        IN /\ fout[1] \in Nat
           /\ (Cardinality(hrs) <= 1 /\ Cardinality(mins) <= 1) =>
                 fout[1] = (IF hrs = {} THEN 0 ELSE fin.arg[Max(hrs)].n) * 3600
                           + (IF mins = {} THEN 0 ELSE fin.arg[Max(mins)].n) * 60

\* "8 hrs 18 mins" gives 29880 seconds
C19_Witness ==
    /\ Returns("getDurationFromStr")
    /\ fin.arg = <<Piece(8, "hrs"), Piece(18, "mins")>>
    /\ fout[1] = 29880

\* the title without a closing "(Unabridged)" or "Unabridged"
WithoutMarker(t) ==
    IF t # <<>> /\ t[Len(t)] \in {"Unabridged", "(Unabridged)"}
    THEN SubSeq(t, 1, Len(t) - 1) ELSE t

\* C20: cleanTitle returns the title without its closing ", Book <token>" and
\* without its closing "(Unabridged)" or "Unabridged".  (The code does not
\* satisfy this: it puts the text "undefined" where the marker was.)
C20_CleanTitleRemovesSuffixes ==
    Returns("cleanTitle") => fout[1] = WithoutMarker(StripBookSuffix(fin.arg))

\* C21: cleanTitle is idempotent: cleaning a cleaned title changes nothing.
\* (The code does not satisfy this: the book suffix is removed only when it
\* closes the title, so a suffix that the first pass uncovers is left for the
\* second.)
C21_CleanTitleIdempotent ==
    Returns("cleanTitle") => cleanTitle(fout[1]) = fout[1]

\* the query parameters of a url other than those named ref, in their order
RECURSIVE WithoutRef(_)
WithoutRef(query) ==
    IF query = <<>> THEN <<>>
    ELSE IF Head(query).k = "ref" THEN WithoutRef(Tail(query))
    ELSE <<Head(query)>> \o WithoutRef(Tail(query))

\* C22: cleanUrl returns the url without its query and changes nothing else;
\* cleanNarratorUrl returns the url without its ref parameter and keeps every
\* other query parameter, before or after ref.  (The code does not satisfy the
\* second part: it cuts the url at the ref parameter.)
C22_CleanersRemoveOnlyTheirPart ==
    /\ Returns("cleanUrl") =>
          fout[1] = [origin |-> fin.arg.origin, path |-> fin.arg.path, query |-> <<>>]
    /\ Returns("cleanNarratorUrl") =>
          fout[1] = [origin |-> fin.arg.origin, path |-> fin.arg.path,
                     query |-> WithoutRef(fin.arg.query)]

\* the texts that name table row i: its 2-letter code, its two 3-letter codes,
\* its name and its native name
NamesOfRow(i) ==
    {languages[i].iso639_1, languages[i].iso639_2_T, languages[i].iso639_2_B,
     ToLowerCase(languages[i].name), ToLowerCase(languages[i].nativeName)}

\* C23: parseLanguage called with the 2-letter code, with either 3-letter code
\* or with the name or native name of a table row returns the record of that
\* row (its name and its four codes); called with a token that names no row it
\* returns null.
C23_ParseLanguageRoundTrip ==
    Returns("parseLanguage") =>
        /\ \A i \in 1..Len(languages) :
              ToLowerCase(fin.arg.s) \in NamesOfRow(i) =>
                  fout[1] = <<[name |-> languages[i].name,
                               iso639_1 |-> languages[i].iso639_1,
                               iso639_2_T |-> languages[i].iso639_2_T,
                               iso639_2_B |-> languages[i].iso639_2_B,
                               iso639_3 |-> languages[i].iso639_3]>>
        /\ (\A i \in 1..Len(languages) : ToLowerCase(fin.arg.s) \notin NamesOfRow(i)) =>
              fout[1] = <<>>

\* the bibliographic 3-letter code of French resolves to the French record
C23_Witness ==
    /\ Returns("parseLanguage")
    /\ fin.arg = Lang("fre", 3)
    /\ fout[1] # <<>>
    /\ fout[1][1].name = "French"
    /\ fout[1][1].iso639_2_T = "fra"

\* field `key` of the enriched Creator `new` was refreshed to `value` when its
\* source is present, and is as in the input Creator `old` when it is not
Decided(new, old, key, present, value) ==
    IF present THEN Has(new, key) /\ new[key] = value
    ELSE /\ Has(new, key) <=> Has(old, key)
         /\ Has(old, key) => new[key] = old[key]

\* the first block of a kind among the decoded values of a profile page, or <<>>
FirstBlock(page, type) ==
    LET vals == DecodeScriptsLenient(page.scripts).val
    IN IF BlocksOf(vals, type) = {} THEN <<>> ELSE <<vals[Min(BlocksOf(vals, type))]>>

\* C24: in the enrichment of an author from a profile page whose scripts decode,
\* each of name, bio, id, url, imageUrl and thumbnailImageUrl is refreshed when
\* its source (the thumbnail image; the name, description and url of the
\* MusicGroup block; the image of the Person block) is present, and is the input
\* Creator's when its source is missing, whatever the other sources are.  (The
\* code does not satisfy this: a MusicGroup block without url fails the whole
\* enrichment.)
C24_EnrichedFieldsAreIndependent ==
    \A i \in 1..Len(bslots) :
        (bslots[i].net = "ok" /\ DecodeScriptsLenient(bslots[i].body[1].scripts).ok) =>
            LET page == bslots[i].body[1]
                old == bbook.authors[i]
                new == bslots[i].val
                group == FirstBlock(page, "MusicGroup")
                person == FirstBlock(page, "Person")
                InGroup(src) == group # <<>> /\ Has(group[1], src)
            IN /\ Decided(new, old, "thumbnailImageUrl", page.thumb # NONE, page.thumb)
               /\ Decided(new, old, "name", InGroup("name"), group[1].name)
               /\ Decided(new, old, "bio", InGroup("description"), group[1].description)
               /\ Decided(new, old, "url", InGroup("url"), group[1].url)
               /\ Decided(new, old, "id", InGroup("url"),
                          group[1].url.path[Len(group[1].url.path)])
               /\ Decided(new, old, "imageUrl",
                          person # <<>> /\ Has(person[1], "image"), person[1].image)

RECURSIVE ValuesOf(_)
ValuesOf(scripts) ==
    IF scripts = <<>> THEN <<>> ELSE Head(scripts).vals \o ValuesOf(Tail(scripts))

\* C26: every ld+json block of the detail page is decoded on its own: a block the
\* strict decoder accepts is used whatever the lenient decoder would make of it,
\* a block only the lenient decoder accepts is used with the lenient value, and
\* a block both reject makes getAudibleBook fail with the lenient decoder's error.
C26_StrictThenLenientDecoding ==
    Returns("getAudibleBook") =>
        LET scripts == fin.arg.page.scripts
            rejected == {i \in 1..Len(scripts) : ~scripts[i].strict /\ ~scripts[i].lenient}
        IN /\ rejected = {} =>
                 /\ fout[1].ldJsonList.ok
                 /\ fout[1].ldJsonList.val = ValuesOf(scripts)
           /\ rejected # {} =>
                 /\ ~fout[1].book.ok
                 /\ fout[1].book.err = [name |-> "dJSON.SyntaxError"]

\* a block only the strict decoder accepts and a block only the lenient decoder
\* accepts are both used: the book has the asin of the first and the title of
\* the second
C26_Witness ==
    /\ Returns("getAudibleBook")
    /\ Len(fin.arg.page.scripts) = 2
    /\ fin.arg.page.scripts[1].strict /\ ~fin.arg.page.scripts[1].lenient
    /\ ~fin.arg.page.scripts[2].strict /\ fin.arg.page.scripts[2].lenient
    /\ fout[1].book.ok
    /\ fout[1].book.val.asin = "B02"
    /\ Has(fout[1].book.val, "title")

\* C27: a Book returned from a page with a BreadcrumbList block of n items has
\* as genres the items after the first that are objects, in their order (at
\* most n - 1 of them, none when n is 0), each with the item's name and with the
\* url made of the locale's base url and the item's relative identifier; a Book
\* from a page without BreadcrumbList block has no genres field.
C27_GenresAreLaterBreadcrumbs ==
    (Returns("getAudibleBook") /\ fout[1].book.ok) =>
        LET book == fout[1].book.val
            vals == ValuesOf(fin.arg.page.scripts)
            baseUrl == IF Has(fin.arg.opts, "site") THEN siteCountries[fin.arg.opts.site]
                       ELSE siteCountries.us
        IN IF BlocksOf(vals, "BreadcrumbList") = {} THEN ~Has(book, "genres")
           ELSE LET list == vals[Min(BlocksOf(vals, "BreadcrumbList"))].itemListElement
                    kept == {i \in 2..Len(list) : list[i].kind = "thing"}
                    Rank(i) == Cardinality({j \in kept : j <= i})
                IN /\ Has(book, "genres")
                   /\ Len(book.genres) = Cardinality(kept)
                   /\ Len(book.genres) <= Max({0, Len(list) - 1})
                   /\ \A i \in kept :
                         book.genres[Rank(i)] = [name |-> list[i].item.name,
                                                 url |-> <<baseUrl, list[i].item.id>>]

\* on the French site, a list of the root, Fiction and Fantasy gives the genres
\* Fiction and Fantasy under the French base url
C27_Witness ==
    /\ Returns("getAudibleBook") /\ fout[1].book.ok
    /\ fin.arg.opts = [site |-> "fr"]
    /\ Has(fout[1].book.val, "genres")
    /\ Len(fout[1].book.val.genres) = 2
    /\ fout[1].book.val.genres[1] = [name |-> "Fiction",
                                     url |-> <<"https://www.audible.fr", "/cat/Fiction">>]
    /\ fout[1].book.val.genres[2].name = "Fantasy"

\* C30: the series of a Book the detail extractor returns is made from the
\* series anchors and the series label of the main region alone: a series label
\* outside the main region changes neither the list nor a part.  (The code does
\* not satisfy this: the label text is read from the whole page.)
C30_SeriesReadFromMainOnly ==
    (Returns("getAudibleBook") /\ fout[1].book.ok) =>
        LET book == fout[1].book.val
            baseUrl == IF Has(fin.arg.opts, "site") THEN siteCountries[fin.arg.opts.site]
                       ELSE siteCountries.us
            inMain == SeriesFields(fin.arg.page.series, baseUrl)
        IN /\ Has(book, "series") <=> Has(inMain, "series")
           /\ Has(book, "series") => book.series = inMain.series

\* the items whose getAudibleBook call has failed
FailedDetails == {i \in 1..Len(sslots) : sslots[i].st = "err"}

\* C28: when detail calls of a getFull search have failed, the failure of the
\* search is the failure that happened first in time, wherever its item stands
\* in the list; the calls that were still in flight are not cancelled: each one
\* that ends later is accounted for, a failing one logs its own error, and none
\* changes what the search has failed with.
C28_FirstFailureInTimeSurfaces ==
    FailedDetails # {} =>
        LET first == CHOOSE i \in FailedDetails :
                        \A j \in FailedDetails : sslots[i].at <= sslots[j].at
        IN /\ spc = "failed"
           /\ sout = [status |-> "failed", err |-> sslots[first].err]
           /\ Cardinality({k \in 1..Len(errlog) :
                             errlog[k].line = "ERROR PARSING AUDIBLE BOOK FROM ASIN"})
                 = Cardinality(FailedDetails)
           /\ \A i \in 1..Len(sslots) :
                 sslots[i].at > sslots[first].at => sslots[i].st \in {"ok", "err"}

\* the second item failed first and the first item failed after it: the search
\* has failed with the second item's error and both failures are logged
C28_Witness ==
    /\ Len(sslots) = 2
    /\ sslots[1].st = "err" /\ sslots[2].st = "err"
    /\ sslots[2].at = 1 /\ sslots[1].at = 2
    /\ sslots[1].err # sslots[2].err
    /\ sout.status = "failed" /\ sout.err = sslots[2].err
    /\ Len(errlog) = 2

\* what getAudibleBook(asin, opts) settles to when it runs alone, given the
\* bodies its own fetches got (page: the detail page, <<>> when that fetch
\* failed; profiles[i]: the page of author i, <<>> when that fetch failed)
BookAlone(asin, opts, page, profiles) ==
    LET baseUrl == BaseUrlOf(SiteOf(opts))
        base == BaseBook(page[1], baseUrl)
        enriched == [i \in 1..Len(base.val.authors) |->
                        IF Has(base.val.authors[i], "url")
                        THEN parseAuthorInfo(base.val.authors[i], profiles[i])
                        ELSE base.val.authors[i]]
    IN IF page = <<>> THEN Throw(FetchError(BookUrl(asin, SiteOf(opts))))
       ELSE IF ~base.ok THEN base
       ELSE IF GetAuthorsOf(opts)
       THEN FinishBook([base.val EXCEPT !.authors = enriched], page[1], baseUrl)
       ELSE FinishBook(base.val, page[1], baseUrl)

\* the outcome of a top-level call as its caller sees it
Outcome(r) ==
    IF r.ok THEN [status |-> "returned", book |-> r.val]
    ELSE [status |-> "failed", err |-> r.err]

\* what the detail call of item i of the search settles to when it runs alone
DetailAlone(i) == BookAlone(sitems[i].asin, [site |-> SearchSiteOf(sarg)], sslots[i].body, <<>>)

====
